---- MODULE Spec2Model ----
(***************************************************************************)
(* A model of hpbviz's mask-to-surface pipeline: geometry reconciliation   *)
(* (app.py), surface extraction (mesh.py), the multi-label surface builder *)
(* and run_pipeline (app.py), and connected-component volumetrics          *)
(* (metrics.py).                                                           *)
(*                                                                         *)
(* Volumes are small integer grids.  A voxel index is <<x, y, z>> (the     *)
(* SimpleITK order); numpy arrays are indexed <<z, y, x>>.  Spacing and    *)
(* origin are integers (mm); a direction matrix is axis aligned and kept   *)
(* as its diagonal of signs.  Python's None is the empty tuple <<>> and a  *)
(* present value x is <<x>>.                                               *)
(***************************************************************************)
EXTENDS Integers, Sequences, FiniteSets, TLC

\* ---- Bounds ---------------------------------------------------------------

\* Every volume of the model is a Dim x Dim x Dim grid.
Dim == 2

\* The masks enumerated for the volumetrics specification hold at most
\* MaxFg non-zero voxels.
MaxFg == 2

\* ---- Volumes --------------------------------------------------------------

Axes == 1..3

GridSize == <<Dim, Dim, Dim>>

Idx(size) == (0..(size[1] - 1)) \X (0..(size[2] - 1)) \X (0..(size[3] - 1))

Grid == Idx(GridSize)

ZeroOrigin == <<0, 0, 0>>

IdentityDirection == <<1, 1, 1>>

UnitSpacing == <<1, 1, 1>>

MkImage(size, spacing, origin, direction, data) ==
    [size |-> size, spacing |-> spacing, origin |-> origin,
     direction |-> direction, data |-> data]

\* sitk.Cast(image, sitk.sitkUInt8): integer pixel values wrap modulo 256.
CastUInt8(image) ==
    [image EXCEPT !.data = [v \in DOMAIN image.data |-> image.data[v] % 256]]

\* Physical position of voxel idx of an image, per axis.
PhysicalPoint(image, idx) ==
    [a \in Axes |-> image.origin[a] + image.direction[a] * idx[a] * image.spacing[a]]

\* sitk.DICOMOrient(image, "LPS") followed by SetOrigin((0, 0, 0)): an axis
\* whose direction is reversed is flipped in the data, the direction becomes
\* the identity and the origin is zeroed.
_canonicalize_image(image) ==
    LET src(idx) == [a \in Axes |->
                       IF image.direction[a] = 1 THEN idx[a]
                       ELSE image.size[a] - 1 - idx[a]]
    IN  MkImage(image.size, image.spacing, ZeroOrigin, IdentityDirection,
                [idx \in Idx(image.size) |-> image.data[src(idx)]])

\* sitk.Resample(mask, reference, identity, nearest neighbour, default 0):
\* each output voxel takes the input voxel nearest to its physical position
\* (continuous index rounded half up), or 0 outside the input's buffer
\* [-0.5, size - 0.5).
\* A resampler that extends the mask's edge voxels instead of filling with 0
ResampleNearest_ClampToEdge(mask, reference) ==
    LET num(idx, a) == (PhysicalPoint(reference, idx)[a] - mask.origin[a])
                          * mask.direction[a]
        den(a)      == mask.spacing[a]
        clamp(n, a) == IF n < 0 THEN 0 ELSE IF n > mask.size[a] - 1 THEN mask.size[a] - 1 ELSE n
        near(idx)   == [a \in Axes |->
                          clamp((2 * num(idx, a) + den(a)) \div (2 * den(a)), a)]
    IN  [idx \in Idx(reference.size) |-> mask.data[near(idx)]]

ResampleNearest(mask, reference) ==
    LET num(idx, a) == (PhysicalPoint(reference, idx)[a] - mask.origin[a])
                          * mask.direction[a]
        den(a)      == mask.spacing[a]
        inside(idx) == \A a \in Axes :
                          /\ 2 * num(idx, a) >= -den(a)
                          /\ 2 * num(idx, a) < (2 * mask.size[a] - 1) * den(a)
        near(idx)   == [a \in Axes |-> (2 * num(idx, a) + den(a)) \div (2 * den(a))]
    IN  [idx \in Idx(reference.size) |->
            IF inside(idx) THEN mask.data[near(idx)] ELSE 0]

SameGeometry(mask, reference) ==
    /\ mask.size = reference.size
    /\ mask.spacing = reference.spacing
    /\ mask.origin = reference.origin
    /\ mask.direction = reference.direction

\* A slow path without resampled.CopyInformation(reference): the result keeps
\* the mask's spacing, origin and direction
_resample_mask_to_image_NoCopyInformation(mask, reference) ==
    IF SameGeometry(mask, reference)
    THEN mask
    ELSE MkImage(reference.size, mask.spacing, mask.origin, mask.direction,
                 ResampleNearest(mask, reference))

_resample_mask_to_image(mask, reference) ==
    IF SameGeometry(mask, reference)
    THEN mask
    ELSE MkImage(reference.size, reference.spacing, reference.origin,
                 reference.direction, ResampleNearest(mask, reference))

\* A reader that canonicalizes the mask before reconciling it
_read_mask_like_CanonicalizeFirst(ref_img, file) ==
    _resample_mask_to_image(_canonicalize_image(CastUInt8(file)), ref_img)

\* _read_mask_like on a file that sitk.ReadImage could read.
_read_mask_like(ref_img, file) ==
    _canonicalize_image(_resample_mask_to_image(CastUInt8(file), ref_img))

\* numpy view of an image: sitk.GetArrayFromImage gives axes (z, y, x).
ZYX(idx) == <<idx[3], idx[2], idx[1]>>

GetArrayFromImage(image) ==
    [shape |-> ZYX(image.size),
     at    |-> [zyx \in Idx(ZYX(image.size)) |-> image.data[ZYX(zyx)]]]

\* ---- Surface extraction (mesh.py) ------------------------------------------

\* Messages of the ValueErrors MeshBuilder.mask_to_surface raises.
ErrNot3D == "Mask must be a 3D array (z, y, x)."

ErrEmptyMask == "Mask is empty; nothing to mesh."

ErrNoPoints == "Marching cubes returned an empty mesh."

ErrNoFaces == "Marching cubes returned a mesh without faces."

UnitVec(a) == [b \in Axes |-> IF a = b THEN 1 ELSE 0]

Plus(p, q) == [a \in Axes |-> p[a] + q[a]]

\* vtkDiscreteMarchingCubes at value 1 over the vtkImageData built from the
\* selection: point (x, y, z) carries mask_bool[z, y, x].  A cell is a cube of
\* eight neighbouring points, so a volume with an axis of length 1 has none
\* and yields nothing.  Every grid edge whose two ends differ in the
\* selection carries one output point, at its midpoint; every cube with both
\* selected and unselected corners emits triangles over the points on its own
\* edges.  Points are kept as twice their physical coordinates (integers) and
\* are numbered from 0 in the order of their edges; the polygons come as a
\* vtkCellArray: the number of cells and the flat data 3, i, j, k, 3, i, j, k...
MixedCells(sel, dims) ==
    {c \in Idx(<<dims[1] - 1, dims[2] - 1, dims[3] - 1>>) :
        LET corners == {Plus(c, d) : d \in Idx(<<2, 2, 2>>)}
        IN  (\E p \in corners : p \in sel) /\ (\E p \in corners : p \notin sel)}

CrossingEdges(sel, dims) ==
    {e \in Idx(dims) \X Axes :
        /\ Plus(e[1], UnitVec(e[2])) \in Idx(dims)
        /\ (e[1] \in sel) # (Plus(e[1], UnitVec(e[2])) \in sel)}

PointRank(p, dims) == p[1] + dims[1] * (p[2] + dims[2] * p[3])

EdgeRank(e, dims) == 3 * PointRank(e[1], dims) + (e[2] - 1)

RECURSIVE EdgesInOrder(_, _)
EdgesInOrder(edges, dims) ==
    IF edges = {} THEN << >>
    ELSE LET first == CHOOSE e \in edges :
                         \A f \in edges : EdgeRank(e, dims) <= EdgeRank(f, dims)
         IN  <<first>> \o EdgesInOrder(edges \ {first}, dims)

RECURSIVE CellsInOrder(_, _)
CellsInOrder(cells, dims) ==
    IF cells = {} THEN << >>
    ELSE LET first == CHOOSE c \in cells :
                         \A d \in cells : PointRank(c, dims) <= PointRank(d, dims)
         IN  <<first>> \o CellsInOrder(cells \ {first}, dims)

\* The crossing edges that are edges of cube c
CellEdges(c, crossing) ==
    {e \in crossing :
        \A a \in Axes : /\ e[1][a] - c[a] \in {0, 1}
                        /\ Plus(e[1], UnitVec(e[2]))[a] - c[a] \in {0, 1}}

\* The id of the output point on edge e: its place, from 0, among the
\* crossing edges
PointId(e, crossing, dims) ==
    Cardinality({f \in crossing : EdgeRank(f, dims) < EdgeRank(e, dims)})

\* A fan of triangles over the points on the edges ce
Fan(ce, crossing, dims) ==
    [i \in 1..(Len(ce) - 2) |->
        <<PointId(ce[1], crossing, dims), PointId(ce[i + 1], crossing, dims),
          PointId(ce[i + 2], crossing, dims)>>]

\* The triangles of cube c, as triples of point ids: a fan over the points on
\* its crossing edges
CellTriangles(c, crossing, dims) ==
    Fan(EdgesInOrder(CellEdges(c, crossing), dims), crossing, dims)

RECURSIVE AllTriangles(_, _, _, _)
AllTriangles(cells, i, crossing, dims) ==
    IF i > Len(cells) THEN << >>
    ELSE CellTriangles(cells[i], crossing, dims) \o AllTriangles(cells, i + 1, crossing, dims)

RECURSIVE CellArrayData(_, _)
CellArrayData(triangles, i) ==
    IF i > Len(triangles) THEN << >>
    ELSE <<3, triangles[i][1], triangles[i][2], triangles[i][3]>>
            \o CellArrayData(triangles, i + 1)

\* Twice the physical position of the midpoint of edge e
EdgeMidpoint2(e, spacing, origin) ==
    [a \in Axes |-> 2 * origin[a] + (2 * e[1][a] + UnitVec(e[2])[a]) * spacing[a]]

\* The vtkPolyData with its points on the given edges
PolyData(cells, edges, triangles, spacing, origin) ==
    [points |-> IF cells = {} THEN << >>
                ELSE [i \in 1..Len(edges) |-> EdgeMidpoint2(edges[i], spacing, origin)],
     polys  |-> [cells |-> Len(triangles), data |-> CellArrayData(triangles, 1)]]

MarchCubes(cells, crossing, dims, spacing, origin) ==
    PolyData(cells, EdgesInOrder(crossing, dims),
             AllTriangles(CellsInOrder(cells, dims), 1, crossing, dims), spacing, origin)

DiscreteMarchingCubes(sel, dims, spacing, origin) ==
    MarchCubes(MixedCells(sel, dims), CrossingEdges(sel, dims), dims, spacing, origin)

\* reshape(-1, 4)[:, :3]: the count column is kept and the last index dropped
Faces_KeepCountColumn(data) ==
    [r \in 1..(Len(data) \div 4) |->
        <<data[4 * (r - 1) + 1], data[4 * (r - 1) + 2], data[4 * (r - 1) + 3]>>]

\* vtk_to_numpy(polys.GetData()).reshape(-1, 4)[:, 1:]
Faces(data) ==
    [r \in 1..(Len(data) \div 4) |->
        <<data[4 * (r - 1) + 2], data[4 * (r - 1) + 3], data[4 * (r - 1) + 4]>>]

\* mask_bool = (mask_zyx == label) if label is not None else mask_zyx > 0,
\* as the set of selected (z, y, x) indices
MaskBool(mask_zyx, label) ==
    {zyx \in DOMAIN mask_zyx.at :
        IF label # <<>> THEN mask_zyx.at[zyx] = label[1] ELSE mask_zyx.at[zyx] > 0}

\* The vtkImageData scalars: the selected points (x, y, z)
SelectedPoints(mask_bool) == {ZYX(zyx) : zyx \in mask_bool}

OriginOrZero(origin) == IF origin # <<>> THEN origin[1] ELSE ZeroOrigin

\* raise ValueError(msg)
MeshError(msg) == [err |-> msg, vertices |-> << >>, faces |-> << >>]

\* The checks on the marching cubes output and the arrays returned
MeshOf(poly) ==
    IF Len(poly.points) = 0 THEN MeshError(ErrNoPoints)
    ELSE IF poly.polys.cells = 0 THEN MeshError(ErrNoFaces)
    ELSE [err |-> "", vertices |-> poly.points, faces |-> Faces(poly.polys.data)]

\* An extractor without the empty-selection check: an empty selection runs
\* into marching cubes and comes back as an empty mesh
mask_to_surface_NoEmptyCheck(mask_zyx, spacing, origin, label) ==
    IF Len(mask_zyx.shape) # 3 THEN MeshError(ErrNot3D)
    ELSE MeshOf(DiscreteMarchingCubes(SelectedPoints(MaskBool(mask_zyx, label)),
                                      ZYX(mask_zyx.shape), spacing, OriginOrZero(origin)))

\* The extraction once the array is known to be 3D
ExtractSelection(mask_bool, dims, spacing, origin) ==
    IF mask_bool = {} THEN MeshError(ErrEmptyMask)
    ELSE MeshOf(DiscreteMarchingCubes(SelectedPoints(mask_bool), dims, spacing, origin))

\* MeshBuilder.mask_to_surface(mask_zyx, spacing, origin, label): err is ""
\* on success, else the message of the ValueError raised.
mask_to_surface(mask_zyx, spacing, origin, label) ==
    IF Len(mask_zyx.shape) # 3 THEN MeshError(ErrNot3D)
    ELSE ExtractSelection(MaskBool(mask_zyx, label), ZYX(mask_zyx.shape), spacing,
                          OriginOrZero(origin))

\* ---- Label/color config (app.py) -------------------------------------------

\* Structure names are sequences of characters; RGBA colors are in hundredths.
Name_liver == <<"l", "i", "v", "e", "r">>

Name_hepatic_vessels_OLD == <<"h", "e", "p", "a", "t", "i", "c", "_", "v", "e", "s", "s", "e", "l", "s", "_", "O", "L", "D">>

Name_liver_tumors == <<"l", "i", "v", "e", "r", "_", "t", "u", "m", "o", "r", "s">>

Name_hepatic_vein == <<"h", "e", "p", "a", "t", "i", "c", "_", "v", "e", "i", "n">>

Name_portal_vein == <<"p", "o", "r", "t", "a", "l", "_", "v", "e", "i", "n">>

LiverColor == <<100, 0, 0, 100>>

TASK08_LABELS ==
    << [label |-> 1, name |-> Name_hepatic_vessels_OLD, color |-> <<0, 0, 100, 100>>],
       [label |-> 2, name |-> Name_liver_tumors, color |-> <<0, 100, 0, 100>>] >>

VSNET_LABELS ==
    << [label |-> 1, name |-> Name_hepatic_vein, color |-> <<25, 40, 95, 85>>],
       [label |-> 2, name |-> Name_portal_vein, color |-> <<10, 75, 85, 80>>] >>

LowerCase == <<"a", "b", "c", "d", "e", "f", "g", "h", "i", "j", "k", "l", "m", "n", "o", "p", "q", "r", "s", "t", "u", "v", "w", "x", "y", "z">>

UpperCase == <<"A", "B", "C", "D", "E", "F", "G", "H", "I", "J", "K", "L", "M", "N", "O", "P", "Q", "R", "S", "T", "U", "V", "W", "X", "Y", "Z">>

IsCased(c) == \E i \in 1..26 : c = LowerCase[i] \/ c = UpperCase[i]

ToUpper(c) == IF \E i \in 1..26 : c = LowerCase[i]
              THEN UpperCase[CHOOSE i \in 1..26 : c = LowerCase[i]] ELSE c

ToLower(c) == IF \E i \in 1..26 : c = UpperCase[i]
              THEN LowerCase[CHOOSE i \in 1..26 : c = UpperCase[i]] ELSE c

\* name.replace("_", " ")
ReplaceUnderscores(name) ==
    [i \in 1..Len(name) |-> IF name[i] = "_" THEN " " ELSE name[i]]

\* str.capitalize(): only the first character is upper-cased
Title_Capitalize(s) ==
    [i \in 1..Len(s) |-> IF i = 1 THEN ToUpper(s[i]) ELSE ToLower(s[i])]

\* str.title(): a cased character is upper-cased when it starts a word (it
\* follows no character or an uncased one) and lower-cased otherwise.
Title(s) ==
    [i \in 1..Len(s) |->
        IF i = 1 \/ ~IsCased(s[i - 1]) THEN ToUpper(s[i]) ELSE ToLower(s[i])]

\* name.replace("_", " ").title()
DisplayName(name) == Title(ReplaceUnderscores(name))

\* ---- Surface building (app.py) --------------------------------------------

\* A log record (log.info, log.warning) or a print
LogRec(level, msg, about) == [level |-> level, msg |-> msg, about |-> about]

\* dict assignment d[k] = v
Put(d, k, v) == [x \in (DOMAIN d) \cup {k} |-> IF x = k THEN v ELSE d[x]]

EmptyDict == [x \in {} |-> {}]

\* mask_arr = (arr > 0) or (arr == label), as uint8
MaskArr(arr, label) ==
    [shape |-> arr.shape,
     at |-> [zyx \in DOMAIN arr.at |->
               IF label = <<>>
               THEN (IF arr.at[zyx] > 0 THEN 1 ELSE 0)
               ELSE (IF arr.at[zyx] = label[1] THEN 1 ELSE 0)]]

\* What _build_surface makes of the mesh extracted from a non-empty mask_arr
SurfaceOrNone(mesh, name, color) ==
    IF mesh.err # ""
    THEN [surface |-> <<>>,
          log |-> <<LogRec("warning", "marching cubes failed", name)>>]
    ELSE IF Len(mesh.vertices) = 0 \/ Len(mesh.faces) = 0
    THEN [surface |-> <<>>, log |-> <<LogRec("info", "produced empty geometry", name)>>]
    ELSE [surface |-> << [vertices |-> mesh.vertices, faces |-> mesh.faces,
                          color |-> color, display_name |-> name] >>,
          log |-> << >>]

MeshMaskArr(mask_arr, spacing, origin, name, color) ==
    IF \A zyx \in DOMAIN mask_arr.at : mask_arr.at[zyx] = 0
    THEN [surface |-> <<>>, log |-> <<LogRec("info", "mesh is empty", name)>>]
    ELSE SurfaceOrNone(mask_to_surface(mask_arr, spacing, <<origin>>, <<>>), name, color)

\* _build_surface(mesh_builder, mask_img, name, color, label): surface is
\* <<>> for None, else the one-element tuple of the mesh dict; log holds the
\* records written on the way.
_build_surface(mask_img, name, color, label) ==
    MeshMaskArr(MaskArr(GetArrayFromImage(mask_img), label), mask_img.spacing,
                mask_img.origin, name, color)

\* if s: (set the display name and) surfaces[name] = s
StoreSurface(acc, e, b, set_display_name) ==
    [surfaces |-> IF b.surface # <<>>
                  THEN Put(acc.surfaces, e.name,
                           IF set_display_name
                           THEN [b.surface[1] EXCEPT !.display_name = DisplayName(e.name)]
                           ELSE b.surface[1])
                  ELSE acc.surfaces,
     log |-> acc.log \o b.log]

\* A loop that ends at the first label without a surface
RECURSIVE AddLabels_StopAtFirstSkip(_, _, _, _, _)
AddLabels_StopAtFirstSkip(m_img, label_map, i, set_display_name, acc) ==
    IF i > Len(label_map) THEN acc
    ELSE LET e == label_map[i]
             b == _build_surface(m_img, e.name, e.color, <<e.label>>)
         IN  IF b.surface = <<>>
             THEN [surfaces |-> acc.surfaces, log |-> acc.log \o b.log]
             ELSE AddLabels_StopAtFirstSkip(m_img, label_map, i + 1, set_display_name,
                     [surfaces |-> Put(acc.surfaces, e.name,
                                       [b.surface[1] EXCEPT
                                          !.display_name = DisplayName(e.name)]),
                      log |-> acc.log \o b.log])

\* The loop of _add_labeled_surfaces over label_map.items(), from entry i on.
RECURSIVE AddLabels(_, _, _, _, _)
AddLabels(m_img, label_map, i, set_display_name, acc) ==
    IF i > Len(label_map) THEN acc
    ELSE AddLabels(m_img, label_map, i + 1, set_display_name,
            StoreSurface(acc, label_map[i],
                         _build_surface(m_img, label_map[i].name, label_map[i].color,
                                        <<label_map[i].label>>),
                         set_display_name))

\* _add_labeled_surfaces with a mask path whose file (the image `file`) could
\* be read: the surfaces dict after the call and the log records written.
_add_labeled_surfaces(ref_img, file, label_map, surfaces, log_tag, set_display_name) ==
    LET m_img == _read_mask_like(ref_img, file)
        present == {m_img.data[v] : v \in DOMAIN m_img.data}
                      \cap {label_map[i].label : i \in 1..Len(label_map)}
    IN  AddLabels(m_img, label_map, 1, set_display_name,
                  [surfaces |-> surfaces,
                   log |-> <<LogRec("info", "labels present", <<log_tag, present>>)>>])

\* ---- Connected-component volumetrics (metrics.py) --------------------------

\* Floats are exact rationals <<numerator, denominator>>.
Quot(n, d) == <<n, d>>

RatEq(p, q) == p[1] * q[2] = q[1] * p[2]

\* A selection that ignores label_value
_as_binary_mask_AnyLabel(mask, label_value) ==
    {v \in DOMAIN mask.data : mask.data[v] > 0}

\* _as_binary_mask: the voxels set to 1.
_as_binary_mask(mask, label_value) ==
    {v \in DOMAIN mask.data :
        IF label_value = <<>> THEN mask.data[v] > 0
        ELSE mask.data[v] = label_value[1]}

Abs(n) == IF n < 0 THEN -n ELSE n

\* Voxel neighbourhoods of sitk.ConnectedComponent: faces only, or faces,
\* edges and corners when fully connected.
FaceAdjacent(u, v) == Abs(u[1] - v[1]) + Abs(u[2] - v[2]) + Abs(u[3] - v[3]) = 1

FullyAdjacent(u, v) == u # v /\ \A a \in Axes : Abs(u[a] - v[a]) <= 1

Adjacent(u, v, fully_connected) ==
    IF fully_connected THEN FullyAdjacent(u, v) ELSE FaceAdjacent(u, v)

RECURSIVE Flood(_, _, _)
Flood(front, binary, fully_connected) ==
    LET nxt == front \cup {v \in binary :
                             \E u \in front : Adjacent(u, v, fully_connected)}
    IN  IF nxt = front THEN front ELSE Flood(nxt, binary, fully_connected)

RasterRank(v, size) == v[1] + size[1] * (v[2] + size[2] * v[3])

\* sitk.ConnectedComponent(binary, fully_connected): the components, numbered
\* 1.. in raster order of their first voxel.
RECURSIVE ConnectedComponent(_, _, _)
ConnectedComponent(binary, size, fully_connected) ==
    IF binary = {} THEN << >>
    ELSE LET first == CHOOSE v \in binary :
                         \A w \in binary : RasterRank(v, size) <= RasterRank(w, size)
             comp == Flood({first}, binary, fully_connected)
         IN  <<comp>> \o ConnectedComponent(binary \ comp, size, fully_connected)

\* Corner and edge neighbours taken at connectivity 6 instead of 26
FullyConnected_Six(connectivity) == connectivity = 6

\* fully_connected = connectivity == 26
FullyConnected(connectivity) == connectivity = 26

\* A voxel volume that takes the y spacing twice and leaves out z
VoxelVolume_WrongAxis(spacing) == spacing[1] * spacing[2] * spacing[2]

\* voxel_volume = float(spacing[0] * spacing[1] * spacing[2])
VoxelVolume(spacing) == spacing[1] * spacing[2] * spacing[3]

component_volumes(mask, label_value, connectivity) ==
    LET binary == _as_binary_mask(mask, label_value)
        components == ConnectedComponent(binary, mask.size, FullyConnected(connectivity))
        voxel_volume == VoxelVolume(mask.spacing)
    IN  IF binary = {} THEN << >>
        ELSE [label \in 1..Len(components) |->
                LET voxels == Cardinality(components[label])
                    volume_mm3 == voxels * voxel_volume
                IN  [label_id |-> label, voxel_count |-> voxels,
                     volume_mm3 |-> volume_mm3,
                     volume_ml |-> Quot(volume_mm3, 1000)]]

RECURSIVE SumVolumes(_, _)
SumVolumes(components, i) ==
    IF i > Len(components) THEN 0
    ELSE components[i].volume_mm3 + SumVolumes(components, i + 1)

tumor_volume_summary(mask, label_value, connectivity) ==
    LET components == component_volumes(mask, label_value, connectivity)
        total_mm3 == SumVolumes(components, 1)
    IN  [components |-> components, total_mm3 |-> total_mm3,
         total_ml |-> Quot(total_mm3, 1000)]

\* ---- Input files -----------------------------------------------------------

RefPath == "ct.nii.gz"

LiverPath == "liver.nii.gz"

Task008Path == "task008.nii.gz"

ManualPath == "vsnet.nii.gz"

ExportPath == "liver.obj"

SaveMaskPath == "liver_saved.nii.gz"

InputPaths == {RefPath, LiverPath, Task008Path, ManualPath}

Corner == <<0, 0, 0>>

Opposite == <<1, 1, 1>>

LastX == <<Dim - 1, 0, 0>>

\* Scanner geometries of a case: canonical, origin one voxel off zero, and
\* x axis stored right-to-left.
Geometries ==
    { [spacing |-> UnitSpacing, origin |-> ZeroOrigin, direction |-> IdentityDirection],
      [spacing |-> UnitSpacing, origin |-> <<1, 0, 0>>, direction |-> IdentityDirection],
      [spacing |-> UnitSpacing, origin |-> <<Dim - 1, 0, 0>>, direction |-> <<-1, 1, 1>>] }

\* Label data: voxels of `ones` hold 1, of `twos` 2, of `threes` 3.
Labelled(ones, twos, threes) ==
    [v \in Grid |-> IF v \in ones THEN 1 ELSE IF v \in twos THEN 2
                    ELSE IF v \in threes THEN 3 ELSE 0]

LiverData ==
    { Labelled({}, {}, {}), Labelled(Grid, {}, {}),
      Labelled({Corner}, {}, {}), Labelled({LastX}, {}, {}) }

Task008Data ==
    { Labelled({}, {}, {}), Labelled({}, {Corner}, {}),
      Labelled({<<1, 0, 0>>}, {Corner, Opposite}, {}),
      Labelled({}, Grid, {}), Labelled({}, {}, {Corner}) }

ManualData ==
    { Labelled({}, {}, {}), Labelled({Corner}, {<<0, 1, 0>>}, {}) }

FileOf(g, data) == MkImage(GridSize, g.spacing, g.origin, g.direction, data)

\* A truth test that takes only None for "no path"
Falsy_NoneOnly(path) == path = <<>>

\* `not path`
Falsy(path) == path = <<>> \/ path = <<"">>

\* ---- State -----------------------------------------------------------------

VARIABLES
    args,           \* the arguments of the run_pipeline call
    fs,             \* input files: path -> <<image>>, or <<>> when unreadable
    pc,             \* the statement run_pipeline is at
    img,            \* run_pipeline's locals
    mask_img,
    surfaces,
    tumor_metrics,
    raised,         \* the exception that left run_pipeline, "" for none
    result,         \* <<>> until run_pipeline returns its 4-tuple
    written,        \* the files written so far, in order
    log,            \* log records and prints so far
    steps,          \* the steps of run_pipeline executed so far
    query,          \* the volumetrics call under test
    answer,         \* and what it returned
    session,        \* main()'s locals once the viewer is up: initial_case, the loader
    case_catalog,   \* case name -> paths of the case
    case_cache,     \* main()'s case_cache: case name -> the 4-tuple of its run
    lru,            \* what lru_cache holds for _load_case: case name -> its return value
    collections,    \* the surfaces dicts built so far, by identity
    calls,          \* the handler and loader calls so far
    viewer,         \* the HpbViewer object's fields, <<>> before it is constructed
    vpc             \* where the viewer's event handling is at

vars == <<args, fs, pc, img, mask_img, surfaces, tumor_metrics, raised, result,
          written, log, steps, query, answer, session, case_catalog, case_cache, lru,
          collections, calls, viewer, vpc>>

session_vars == <<session, case_catalog, case_cache, lru, collections, calls, viewer, vpc>>

pipeline_vars == <<args, fs, pc, img, mask_img, surfaces, tumor_metrics, raised,
                   result, written, log, steps>>

NoQuery == [kind |-> "none"]

\* No viewer session: nothing of main()'s viewer branch exists
NoSession ==
    /\ session = <<>>
    /\ case_catalog = << >>
    /\ case_cache = << >>
    /\ lru = << >>
    /\ collections = << >>
    /\ calls = << >>
    /\ viewer = <<>>
    /\ vpc = "none"

Init ==
    /\ \E g \in Geometries, ref \in BOOLEAN,
          liver \in {<<>>} \cup {<<d>> : d \in LiverData},
          task \in {<<>>} \cup {<<d>> : d \in Task008Data},
          manual \in {<<>>} \cup {<<d>> : d \in ManualData} :
          fs = [p \in InputPaths |->
                  CASE p = RefPath -> IF ref THEN <<FileOf(g, Labelled({}, {}, {}))>> ELSE <<>>
                    [] p = LiverPath -> IF liver = <<>> THEN <<>> ELSE <<FileOf(g, liver[1])>>
                    [] p = Task008Path -> IF task = <<>> THEN <<>> ELSE <<FileOf(g, task[1])>>
                    [] p = ManualPath -> IF manual = <<>> THEN <<>> ELSE <<FileOf(g, manual[1])>>]
    /\ \E liver \in {<<>>, <<"">>, <<LiverPath>>},
          task \in {<<>>, <<Task008Path>>},
          manual \in {<<>>, <<ManualPath>>},
          export \in {<<>>, <<ExportPath>>},
          save \in {<<>>, <<SaveMaskPath>>} :
          args = [input_path |-> RefPath, export_path |-> export,
                  liver_mask_path |-> liver, save_mask_path |-> save,
                  task008_mask_path |-> task, manual_mask_path |-> manual]
    \* a path that is not passed names no file of the model
    /\ Falsy(args.liver_mask_path) => fs[LiverPath] = <<>>
    /\ Falsy(args.task008_mask_path) => fs[Task008Path] = <<>>
    /\ Falsy(args.manual_mask_path) => fs[ManualPath] = <<>>
    /\ pc = "load"
    /\ img = <<>>
    /\ mask_img = <<>>
    /\ surfaces = EmptyDict
    /\ tumor_metrics = <<>>
    /\ raised = ""
    /\ result = <<>>
    /\ written = << >>
    /\ log = << >>
    /\ steps = << >>
    /\ NoSession
    /\ query = NoQuery
    /\ answer = <<>>

\* ---- run_pipeline ------------------------------------------------------------

ErrLoad == "load_dicom_series: path does not exist or is unreadable"

ErrLiverRequired == "Liver mask is required. No local segmentation fallback is available."

ErrReadImage == "sitk.ReadImage failed"

ErrWriteImage == "sitk.WriteImage failed"

ErrSaveMesh == "save_mesh: cannot open the export path"

\* sitk.ReadImage(path): <<image>>, or <<>> when it raises
ReadImage(path) == IF path \in DOMAIN fs THEN fs[path] ELSE <<>>

Raise(err) ==
    /\ raised' = err
    /\ pc' = "raised"

\* 1) img = _canonicalize_image(load_dicom_series(input_path))
LoadReference ==
    /\ pc = "load"
    /\ steps' = Append(steps, "load")
    /\ IF ReadImage(args.input_path) = <<>>
       THEN /\ Raise(ErrLoad)
            /\ UNCHANGED img
       ELSE /\ img' = <<_canonicalize_image(ReadImage(args.input_path)[1])>>
            /\ pc' = "resolve_liver"
            /\ UNCHANGED raised
    /\ UNCHANGED <<args, fs, mask_img, surfaces, tumor_metrics, result, written, log,
                   query, answer, session_vars>>

\* mask_img = _read_mask_like(img, liver_mask_path)
ResolvedLiverMask == _read_mask_like(img[1], ReadImage(args.liver_mask_path[1])[1])

\* 2) the liver mask is required; it is read like the reference and, when
\* asked for, saved.  The write succeeds or fails with the file system.
ResolveLiver ==
    /\ pc = "resolve_liver"
    /\ steps' = Append(steps, "resolve_liver")
    /\ IF Falsy(args.liver_mask_path)
       THEN /\ Raise(ErrLiverRequired)
            /\ UNCHANGED <<mask_img, written, log>>
       ELSE IF ReadImage(args.liver_mask_path[1]) = <<>>
       THEN /\ Raise(ErrReadImage)
            /\ UNCHANGED <<mask_img, written, log>>
       ELSE /\ mask_img' = <<ResolvedLiverMask>>
            /\ IF Falsy(args.save_mask_path)
               THEN /\ pc' = "build_liver"
                    /\ UNCHANGED <<raised, written, log>>
               ELSE \E ok \in BOOLEAN :
                      IF ok
                      THEN /\ written' = Append(written,
                                 [path |-> args.save_mask_path[1], kind |-> "mask",
                                  content |-> ResolvedLiverMask])
                           /\ log' = Append(log, LogRec("info", "saved liver mask",
                                                        args.save_mask_path[1]))
                           /\ pc' = "build_liver"
                           /\ UNCHANGED raised
                      ELSE /\ Raise(ErrWriteImage)
                           /\ UNCHANGED <<written, log>>
    /\ UNCHANGED <<args, fs, img, surfaces, tumor_metrics, result, query, answer, session_vars>>

\* liver_surface = _build_surface(mesh_builder, mask_img, name="liver", color=...)
liver_surface == _build_surface(mask_img[1], Name_liver, LiverColor, <<>>)

\* The liver step of the earlier pipeline, for which an empty liver was fatal
BuildLiver_EmptyIsFatal ==
    /\ pc = "build_liver"
    /\ steps' = Append(steps, "build_liver")
    /\ IF liver_surface.surface # <<>>
       THEN /\ surfaces' = Put(EmptyDict, Name_liver, liver_surface.surface[1])
            /\ log' = log \o liver_surface.log
            /\ pc' = "task08"
            /\ UNCHANGED raised
       ELSE /\ surfaces' = EmptyDict
            /\ log' = log \o liver_surface.log
            /\ Raise("Liver surface is empty")
    /\ UNCHANGED <<args, fs, img, mask_img, tumor_metrics, result, written,
                   query, answer, session_vars>>

\* 3) mesh_builder = MeshBuilder(); surfaces = {}; the liver surface
BuildLiver ==
    /\ pc = "build_liver"
    /\ steps' = Append(steps, "build_liver")
    /\ IF liver_surface.surface # <<>>
       THEN /\ surfaces' = Put(EmptyDict, Name_liver, liver_surface.surface[1])
            /\ log' = log \o liver_surface.log
       ELSE /\ surfaces' = EmptyDict
            /\ log' = (log \o liver_surface.log)
                        \o <<LogRec("info", "liver surface empty", Name_liver)>>
    /\ pc' = "task08"
    /\ UNCHANGED <<args, fs, img, mask_img, tumor_metrics, raised, result, written,
                   query, answer, session_vars>>

\* What _add_labeled_surfaces(..., surfaces=surfaces, set_display_name=True)
\* makes of run_pipeline's surfaces on a readable mask
AddedSurfaces(mask_path, label_map, log_tag) ==
    _add_labeled_surfaces(img[1], ReadImage(mask_path[1])[1], label_map, surfaces,
                          log_tag, TRUE)

\* A call of _add_labeled_surfaces from run_pipeline: returns at once without
\* a mask path, raises when the file cannot be read, else adds the surfaces.
CallAddLabeledSurfaces(mask_path, label_map, log_tag, next_pc) ==
    IF Falsy(mask_path)
    THEN /\ pc' = next_pc
         /\ UNCHANGED <<surfaces, log, raised>>
    ELSE IF ReadImage(mask_path[1]) = <<>>
    THEN /\ Raise(ErrReadImage)
         /\ UNCHANGED <<surfaces, log>>
    ELSE /\ surfaces' = AddedSurfaces(mask_path, label_map, log_tag).surfaces
         /\ log' = log \o AddedSurfaces(mask_path, label_map, log_tag).log
         /\ pc' = next_pc
         /\ UNCHANGED raised

\* Task08 (optional): tumor_metrics = None, then the vessel/tumor surfaces
BuildTask08 ==
    /\ pc = "task08"
    /\ steps' = Append(steps, "task08")
    /\ tumor_metrics' = <<>>
    /\ CallAddLabeledSurfaces(args.task008_mask_path, TASK08_LABELS, "Task08", "metrics")
    /\ UNCHANGED <<args, fs, img, mask_img, result, written, query, answer, session_vars>>

\* The dict run_pipeline builds from tumor_volume_summary's result
MetricsDict(summary) ==
    [components |-> summary.components, total_mm3 |-> summary.total_mm3,
     total_ml |-> summary.total_ml]

\* Volumetrics only for a tumor that has a surface
MetricsWanted_OnlyWithTumorSurface ==
    ~Falsy(args.task008_mask_path) /\ Name_liver_tumors \in DOMAIN surfaces

\* if task008_mask_path:
MetricsWanted == ~Falsy(args.task008_mask_path)

\* An except branch that re-raises
MetricsExcept_Propagates ==
    /\ Raise("tumor_volume_summary failed")
    /\ UNCHANGED <<tumor_metrics, log>>

\* An except branch that gives up on the manual mask as well
MetricsExcept_SkipsManual ==
    /\ tumor_metrics' = <<>>
    /\ log' = Append(log, LogRec("print", "failed to compute tumour volume",
                                 args.task008_mask_path[1]))
    /\ pc' = "export"
    /\ UNCHANGED raised

\* except Exception as exc: print(...); tumor_metrics = None
MetricsExcept ==
    /\ tumor_metrics' = <<>>
    /\ log' = Append(log, LogRec("print", "failed to compute tumour volume",
                                 args.task008_mask_path[1]))
    /\ pc' = "manual"
    /\ UNCHANGED raised

\* tumor_volume_summary(_read_mask_like(img, task008_mask_path), label_value=2,
\* connectivity=26)
TaskSummary ==
    tumor_volume_summary(_read_mask_like(img[1], ReadImage(args.task008_mask_path[1])[1]),
                         <<2>>, 26)

\* The volumetrics block.  Anything raised inside the try (the second read of
\* the file, SimpleITK running out of memory) takes the except branch.
Volumetrics ==
    /\ pc = "metrics"
    /\ steps' = Append(steps, "metrics")
    /\ IF ~MetricsWanted
       THEN /\ pc' = "manual"
            /\ UNCHANGED <<tumor_metrics, log, raised>>
       ELSE \E fault \in BOOLEAN :
              IF fault \/ ReadImage(args.task008_mask_path[1]) = <<>>
              THEN MetricsExcept
              ELSE /\ tumor_metrics' = <<MetricsDict(TaskSummary)>>
                   /\ log' = Append(log, LogRec("print", "metrics computed",
                                                Len(TaskSummary.components)))
                   /\ pc' = "manual"
                   /\ UNCHANGED raised
    /\ UNCHANGED <<args, fs, img, mask_img, surfaces, result, written, query, answer, session_vars>>

\* VSNet/manual (optional)
BuildManual ==
    /\ pc = "manual"
    /\ steps' = Append(steps, "manual")
    /\ CallAddLabeledSurfaces(args.manual_mask_path, VSNET_LABELS, "VSNet", "export")
    /\ UNCHANGED <<args, fs, img, mask_img, tumor_metrics, result, written,
                   query, answer, session_vars>>

\* An export of whatever surface there is, liver or not
Export_AnySurface ==
    /\ pc = "export"
    /\ steps' = Append(steps, "export")
    /\ IF ~Falsy(args.export_path) /\ DOMAIN surfaces # {}
       THEN LET k == CHOOSE k \in DOMAIN surfaces : Name_liver \in DOMAIN surfaces => k = Name_liver
            IN  /\ written' = Append(written,
                       [path |-> args.export_path[1], kind |-> "mesh",
                        content |-> [vertices |-> surfaces[k].vertices,
                                     faces |-> surfaces[k].faces,
                                     color |-> surfaces[k].color]])
                /\ log' = Append(log, LogRec("info", "exported liver mesh",
                                           args.export_path[1]))
                /\ pc' = "return"
                /\ UNCHANGED raised
       ELSE /\ pc' = "return"
            /\ UNCHANGED <<written, log, raised>>
    /\ UNCHANGED <<args, fs, img, mask_img, surfaces, tumor_metrics, result,
                   query, answer, session_vars>>

\* 4) optional export, only if the liver is present; save_mesh opens the
\* path for writing, which succeeds or fails with the file system.
Export ==
    /\ pc = "export"
    /\ steps' = Append(steps, "export")
    /\ IF ~Falsy(args.export_path) /\ Name_liver \in DOMAIN surfaces
       THEN \E ok \in BOOLEAN :
              IF ok
              THEN /\ written' = Append(written,
                         [path |-> args.export_path[1], kind |-> "mesh",
                          content |-> [vertices |-> surfaces[Name_liver].vertices,
                                       faces |-> surfaces[Name_liver].faces,
                                       color |-> surfaces[Name_liver].color]])
                   /\ log' = Append(log, LogRec("info", "exported liver mesh",
                                              args.export_path[1]))
                   /\ pc' = "return"
                   /\ UNCHANGED raised
              ELSE /\ Raise(ErrSaveMesh)
                   /\ UNCHANGED <<written, log>>
       ELSE /\ pc' = "return"
            /\ UNCHANGED <<written, log, raised>>
    /\ UNCHANGED <<args, fs, img, mask_img, surfaces, tumor_metrics, result,
                   query, answer, session_vars>>

\* A return of the liver mask as it was read from its file
Return_ReturnsMaskFile ==
    /\ pc = "return"
    /\ steps' = Append(steps, "return")
    /\ result' = <<[img |-> img[1], surfaces |-> surfaces,
                    mask_img |-> ReadImage(args.liver_mask_path[1])[1],
                    tumor_metrics |-> tumor_metrics]>>
    /\ pc' = "returned"
    /\ UNCHANGED <<args, fs, img, mask_img, surfaces, tumor_metrics, raised, written,
                   log, query, answer, session_vars>>

\* return img, surfaces, mask_img, tumor_metrics
Return ==
    /\ pc = "return"
    /\ steps' = Append(steps, "return")
    /\ result' = <<[img |-> img[1], surfaces |-> surfaces, mask_img |-> mask_img[1],
                    tumor_metrics |-> tumor_metrics]>>
    /\ pc' = "returned"
    /\ UNCHANGED <<args, fs, img, mask_img, surfaces, tumor_metrics, raised, written,
                   log, query, answer, session_vars>>

Next ==
    \/ LoadReference
    \/ ResolveLiver
    \/ BuildLiver
    \/ BuildTask08
    \/ Volumetrics
    \/ BuildManual
    \/ Export
    \/ Return

Spec == Init /\ [][Next]_vars

\* ---- Volumetrics calls on their own -----------------------------------------

\* The sets of at most n voxels
RECURSIVE UpTo(_)
UpTo(n) ==
    IF n = 0 THEN {{}}
    ELSE LET smaller == UpTo(n - 1)
         IN  smaller \cup {S \cup {v} : S \in smaller, v \in Grid}

\* Masks of at most MaxFg tumor voxels (label 2), with or without a vessel
\* voxel (label 1) at the corner
QueryMasks ==
    {Labelled(ones \ twos, twos, {}) : ones \in {{}, {Corner}}, twos \in UpTo(MaxFg)}

QuerySpacings == {UnitSpacing, <<2, 1, 3>>}

Connectivities == {6, 18, 26}

InitMetrics ==
    /\ \E data \in QueryMasks, spacing \in QuerySpacings,
          label_value \in {<<>>, <<2>>}, connectivity \in Connectivities :
          query = [kind |-> "volumetrics",
                   mask |-> MkImage(GridSize, spacing, ZeroOrigin, IdentityDirection, data),
                   label_value |-> label_value, connectivity |-> connectivity]
    /\ answer = <<>>
    /\ args = <<>>
    /\ fs = <<>>
    /\ pc = "idle"
    /\ img = <<>>
    /\ mask_img = <<>>
    /\ surfaces = EmptyDict
    /\ tumor_metrics = <<>>
    /\ raised = ""
    /\ result = <<>>
    /\ written = << >>
    /\ log = << >>
    /\ steps = << >>
    /\ NoSession

CallComponentVolumes ==
    /\ query.kind = "volumetrics"
    /\ answer = <<>>
    /\ answer' = <<[of |-> "component_volumes",
                    value |-> component_volumes(query.mask, query.label_value,
                                                query.connectivity),
                    components |-> ConnectedComponent(
                                      _as_binary_mask(query.mask, query.label_value),
                                      query.mask.size,
                                      FullyConnected(query.connectivity))]>>
    /\ UNCHANGED <<query, pipeline_vars, session_vars>>

CallTumorVolumeSummary ==
    /\ query.kind = "volumetrics"
    /\ answer = <<>>
    /\ answer' = <<[of |-> "tumor_volume_summary",
                    value |-> tumor_volume_summary(query.mask, query.label_value,
                                                   query.connectivity)]>>
    /\ UNCHANGED <<query, pipeline_vars, session_vars>>

NextMetrics ==
    \/ CallComponentVolumes
    \/ CallTumorVolumeSummary

SpecMetrics == InitMetrics /\ [][NextMetrics]_vars

\* ---- Geometry reconciliation calls on their own -----------------------------

\* Grids a mask or a reference can come on: the canonical one, one shifted by
\* a voxel, one shifted by half a voxel of twice the spacing, one stored
\* right-to-left, one coarser along x, and one that is a single slab along x.
GridGeometries ==
    { [size |-> GridSize, spacing |-> UnitSpacing, origin |-> ZeroOrigin,
       direction |-> IdentityDirection],
      [size |-> GridSize, spacing |-> UnitSpacing, origin |-> <<1, 0, 0>>,
       direction |-> IdentityDirection],
      [size |-> GridSize, spacing |-> <<2, 2, 2>>, origin |-> <<1, 0, 0>>,
       direction |-> IdentityDirection],
      [size |-> GridSize, spacing |-> UnitSpacing, origin |-> <<Dim - 1, 0, 0>>,
       direction |-> <<-1, 1, 1>>],
      [size |-> GridSize, spacing |-> <<2, 1, 1>>, origin |-> ZeroOrigin,
       direction |-> IdentityDirection],
      [size |-> <<1, Dim, Dim>>, spacing |-> UnitSpacing, origin |-> ZeroOrigin,
       direction |-> IdentityDirection] }

LastIdx(size) == <<size[1] - 1, size[2] - 1, size[3] - 1>>

\* Label data of a volume of the given size
LabelPatterns(size) ==
    { [v \in Idx(size) |-> 0],
      [v \in Idx(size) |-> IF v = Corner THEN 1 ELSE 0],
      [v \in Idx(size) |-> IF v = LastIdx(size) THEN 2 ELSE IF v = Corner THEN 1 ELSE 0],
      [v \in Idx(size) |-> 3],
      [v \in Idx(size) |-> IF v[2] = 0 THEN 1 ELSE 2] }

InitGeometry ==
    /\ \E gm \in GridGeometries, gr \in GridGeometries :
         \E dm \in LabelPatterns(gm.size) :
            query = [kind |-> "reconcile",
                     mask |-> MkImage(gm.size, gm.spacing, gm.origin, gm.direction, dm),
                     reference |-> MkImage(gr.size, gr.spacing, gr.origin, gr.direction,
                                           [v \in Idx(gr.size) |-> 0])]
    /\ answer = <<>>
    /\ args = <<>>
    /\ fs = <<>>
    /\ pc = "idle"
    /\ img = <<>>
    /\ mask_img = <<>>
    /\ surfaces = EmptyDict
    /\ tumor_metrics = <<>>
    /\ raised = ""
    /\ result = <<>>
    /\ written = << >>
    /\ log = << >>
    /\ steps = << >>
    /\ NoSession

\* resampled = _resample_mask_to_image(mask, reference)
CallResample ==
    /\ query.kind = "reconcile"
    /\ answer = <<>>
    /\ answer' = <<[of |-> "_resample_mask_to_image",
                    value |-> _resample_mask_to_image(query.mask, query.reference)]>>
    /\ UNCHANGED <<query, pipeline_vars, session_vars>>

\* the result reconciled against the same reference once more
CallResampleAgain ==
    /\ query.kind = "reconcile"
    /\ answer # <<>>
    /\ answer[1].of = "_resample_mask_to_image"
    /\ answer' = <<[of |-> "_resample_mask_to_image twice",
                    first |-> answer[1].value,
                    value |-> _resample_mask_to_image(answer[1].value, query.reference)]>>
    /\ UNCHANGED <<query, pipeline_vars, session_vars>>

NextGeometry ==
    \/ CallResample
    \/ CallResampleAgain

SpecGeometry == InitGeometry /\ [][NextGeometry]_vars

\* ---- Surface extraction calls on their own -----------------------------------

\* def mask_to_surface(self, mask_zyx, spacing, origin=None, label: int = 1)
DefaultLabel == <<1>>

\* Label data with all of 1, 2 and 3 in it
ThreeLabels(size) ==
    [v \in Idx(size) |-> IF v = LastIdx(size) THEN 3 ELSE IF v[1] = 0 THEN 1 ELSE 2]

\* A volume one voxel longer along x than the grid, labelled 1 throughout but
\* for a last voxel labelled 2
LongSize == <<Dim + 1, Dim, Dim>>

OneButLast == [v \in Idx(LongSize) |-> IF v = LastIdx(LongSize) THEN 2 ELSE 1]

\* The (z, y, x) arrays handed to mask_to_surface: cubes and single slices of
\* label data, a longer volume, and two-dimensional arrays
MeshArrays ==
    { GetArrayFromImage(MkImage(size, UnitSpacing, ZeroOrigin, IdentityDirection, d)) :
        size \in {GridSize}, d \in LabelPatterns(GridSize) \cup {ThreeLabels(GridSize)} }
    \cup
    { GetArrayFromImage(MkImage(LongSize, UnitSpacing, ZeroOrigin, IdentityDirection,
                                OneButLast)) }
    \cup
    { GetArrayFromImage(MkImage(<<Dim, Dim, 1>>, UnitSpacing, ZeroOrigin, IdentityDirection, d)) :
        d \in LabelPatterns(<<Dim, Dim, 1>>) }
    \cup
    { [shape |-> <<Dim, Dim>>, at |-> [yx \in (0..(Dim - 1)) \X (0..(Dim - 1)) |-> c]] :
        c \in {0, 1} }

MeshSpacings == {UnitSpacing, <<2, 1, 3>>}

MeshOrigins == {<<>>, <<ZeroOrigin>>, << <<1, 0, 2>> >>}

InitMesh ==
    /\ \E mask_zyx \in MeshArrays, spacing \in MeshSpacings, origin \in MeshOrigins,
          label_given \in BOOLEAN, label \in {<<>>, <<1>>, <<2>>, <<3>>} :
          /\ ~label_given => label = <<>>
          /\ query = [kind |-> "mesh", mask_zyx |-> mask_zyx, spacing |-> spacing,
                      origin |-> origin, label_given |-> label_given, label |-> label]
    /\ answer = <<>>
    /\ args = <<>>
    /\ fs = <<>>
    /\ pc = "idle"
    /\ img = <<>>
    /\ mask_img = <<>>
    /\ surfaces = EmptyDict
    /\ tumor_metrics = <<>>
    /\ raised = ""
    /\ result = <<>>
    /\ written = << >>
    /\ log = << >>
    /\ steps = << >>
    /\ NoSession

\* MeshBuilder().mask_to_surface(mask_zyx, spacing, origin[, label])
CallMaskToSurface ==
    /\ query.kind = "mesh"
    /\ answer = <<>>
    /\ answer' = <<[of |-> "mask_to_surface",
                    value |-> mask_to_surface(query.mask_zyx, query.spacing, query.origin,
                                              IF query.label_given THEN query.label
                                              ELSE DefaultLabel)]>>
    /\ UNCHANGED <<query, pipeline_vars, session_vars>>

NextMesh == CallMaskToSurface

SpecMesh == InitMesh /\ [][NextMesh]_vars

\* ---- Everything side by side ------------------------------------------------

\* run_pipeline runs and direct calls of the volumetrics, reconciliation and
\* surface extraction functions
InitAll == Init \/ InitMetrics \/ InitGeometry \/ InitMesh

NextAll == Next \/ NextMetrics \/ NextGeometry \/ NextMesh

SpecAll == InitAll /\ [][NextAll]_vars

\* ---- Case discovery (app.py) --------------------------------------------------

\* File names are sequences of the pieces the code tells apart ("case1",
\* "_dicom", ".nii", ".gz", ...); paths are sequences of names, absolute or
\* relative to the working directory.

MaxListing == 2

Cwd == << <<"work">> >>

Home == << <<"home">>, <<"user">> >>

MkPath(abs, parts) == [abs |-> abs, parts |-> parts]

\* Path(p).expanduser()
ExpandUser(p) ==
    IF ~p.abs /\ Len(p.parts) > 0 /\ p.parts[1] = <<"~">>
    THEN MkPath(TRUE, Home \o Tail(p.parts))
    ELSE p

\* p.resolve()
Resolve(p) == IF p.abs THEN p ELSE MkPath(TRUE, Cwd \o p.parts)

\* p / name
Join(p, name) == MkPath(p.abs, Append(p.parts, name))

\* str.lower(), piece by piece
LowerPiece(t) ==
    CASE t = "Liver" -> "liver"
      [] t = "_DICOM" -> "_dicom"
      [] t = "MASK" -> "mask"
      [] OTHER -> t

LowerName(name) == [i \in DOMAIN name |-> LowerPiece(name[i])]

\* piece in name
Contains(name, piece) == \E i \in DOMAIN name : name[i] = piece

\* name.endswith(suffix)
EndsWith(name, suffix) ==
    /\ Len(name) >= Len(suffix)
    /\ SubSeq(name, Len(name) - Len(suffix) + 1, Len(name)) = suffix

DropLast(name, n) == SubSeq(name, 1, Len(name) - n)

\* Path.suffix: the last piece when it is an extension
Suffix(name) ==
    IF Len(name) > 1 /\ name[Len(name)] \in {".nii", ".gz", ".txt", ".d"}
    THEN name[Len(name)] ELSE ""

\* base[: -len(suffix)] for the first of "_dicom", "_dicoms" that ends base.lower()
StripDicomSuffix(base) ==
    IF EndsWith(LowerName(base), <<"_dicom">>) \/ EndsWith(LowerName(base), <<"_dicoms">>)
    THEN DropLast(base, 1) ELSE base

\* base or "case"
OrCase(base) == IF base = << >> THEN <<"case">> ELSE base

\* _case_name_from_path(path), for the name of a directory entry
_case_name_from_path(name) ==
    OrCase(StripDicomSuffix(
        IF EndsWith(name, <<".nii", ".gz">>) THEN DropLast(name, 2)
        ELSE IF EndsWith(name, <<".nii">>) THEN DropLast(name, 1)
        ELSE name))

\* The names sorted() can meet in a raw case folder, in sorted order
SortedNames ==
    << <<"a", "_", "mask", ".nii">>, <<"ct", ".nii", ".gz">>,
       <<"liver", "_", "MASK", ".nii", ".gz">>, <<"readme", ".txt">> >>

\* glob("*.nii*"): the names holding ".nii"
GlobNii(name) == Contains(name, ".nii")

IsNiiChild(children, name) == name \in children /\ GlobNii(name)

\* nii_files = sorted(raw_entry.glob("*.nii*"))
SortedNii(children) ==
    SelectSeq(SortedNames, LAMBDA n : IsNiiChild(children, n))

NotAMask(name) == ~Contains(LowerName(name), "mask")

\* next((p for p in nii_files if "mask" not in p.name.lower()), nii_files[0])
Chosen(nii_files) ==
    IF SelectSeq(nii_files, NotAMask) # << >>
    THEN Head(SelectSeq(nii_files, NotAMask))
    ELSE nii_files[1]

\* target = chosen or raw_entry
Target(entry_path, nii_files) ==
    IF nii_files = << >> THEN entry_path ELSE Join(entry_path, Chosen(nii_files))

\* cases.setdefault(case, {})[key] = value
SetEntry(cases, case, key, value) ==
    Put(cases, case, Put(IF case \in DOMAIN cases THEN cases[case] ELSE EmptyDict,
                         key, value))

\* cases.setdefault(case, {})
SetDefault(cases, case) ==
    IF case \in DOMAIN cases THEN cases ELSE Put(cases, case, EmptyDict)

\* The body of the loop over raw_root_path.iterdir()
RawEntry(cases, raw_root_path, e) ==
    IF e.is_dir
    THEN SetEntry(cases, _case_name_from_path(e.name), "dicom_path",
                  Resolve(Target(Join(raw_root_path, e.name), SortedNii(e.children))))
    ELSE IF Suffix(e.name) \in {".nii", ".gz"}
    THEN SetEntry(cases, _case_name_from_path(e.name), "dicom_path",
                  Resolve(Join(raw_root_path, e.name)))
    ELSE cases

RECURSIVE RawEntries(_, _, _, _)
RawEntries(cases, raw_root_path, listing, i) ==
    IF i > Len(listing) THEN cases
    ELSE RawEntries(RawEntry(cases, raw_root_path, listing[i]), raw_root_path,
                    listing, i + 1)

NoMasks == [liver_mask |-> <<>>, task008_mask |-> <<>>, manual_mask |-> <<>>]

IsTask008Name(name_lower) ==
    Contains(name_lower, "task008") \/ Contains(name_lower, "hepatic")
        \/ Contains(name_lower, "tumor")

IsManualName(name_lower) ==
    Contains(name_lower, "vsnet") \/ Contains(name_lower, "inputvsnet")

\* The if / elif / elif over one candidate of out_dir.glob("*.nii*")
Candidate(masks, path, name_lower) ==
    IF Contains(name_lower, "liver") /\ masks.liver_mask = <<>>
    THEN [masks EXCEPT !.liver_mask = <<path>>]
    ELSE IF IsTask008Name(name_lower) /\ masks.task008_mask = <<>>
    THEN [masks EXCEPT !.task008_mask = <<path>>]
    ELSE IF IsManualName(name_lower) /\ masks.manual_mask = <<>>
    THEN [masks EXCEPT !.manual_mask = <<path>>]
    ELSE masks

\* for candidate in out_dir.glob("*.nii*"): the glob matches by name, files
\* and directories alike
RECURSIVE Candidates(_, _, _, _)
Candidates(masks, out_dir_path, children, i) ==
    IF i > Len(children) THEN masks
    ELSE Candidates(
            IF GlobNii(children[i].name)
            THEN Candidate(masks, Resolve(Join(out_dir_path, children[i].name)),
                           LowerName(children[i].name))
            ELSE masks,
            out_dir_path, children, i + 1)

\* if liver_mask: entry["liver_mask"] = liver_mask, and so on
StoreMask(entry, key, mask) == IF mask # <<>> THEN Put(entry, key, mask[1]) ELSE entry

StoreMasks(entry, masks) ==
    StoreMask(StoreMask(StoreMask(entry, "liver_mask", masks.liver_mask),
                        "task008_mask", masks.task008_mask),
              "manual_mask", masks.manual_mask)

\* The body of the loop over output_root_path.iterdir()
OutDir(cases, output_root_path, d) ==
    IF ~d.is_dir THEN cases
    ELSE Put(cases, d.name,
             StoreMasks(SetDefault(cases, d.name)[d.name],
                        Candidates(NoMasks, Join(output_root_path, d.name),
                                   d.children, 1)))

RECURSIVE OutDirs(_, _, _, _)
OutDirs(cases, output_root_path, listing, i) ==
    IF i > Len(listing) THEN cases
    ELSE OutDirs(OutDir(cases, output_root_path, listing[i]), output_root_path,
                 listing, i + 1)

\* {case: info for case, info in cases.items() if info.get("dicom_path")}
WithDicomPath(cases) ==
    [case \in {c \in DOMAIN cases : "dicom_path" \in DOMAIN cases[c]} |-> cases[case]]

\* _discover_cases(raw_root, output_root) on a file system where the listing of
\* a root is <<>> when the root is no directory and <<entries>> otherwise
_discover_cases(raw_root, output_root, raw, out) ==
    WithDicomPath(
        OutDirs(IF raw = <<>> THEN EmptyDict
                ELSE RawEntries(EmptyDict, ExpandUser(raw_root), raw[1], 1),
                ExpandUser(output_root),
                IF out = <<>> THEN << >> ELSE out[1], 1))

\* ---- Discovery calls on their own --------------------------------------------

\* The sequences without repetition of at most n elements of S
RECURSIVE Listings(_, _)
Listings(S, n) ==
    IF n = 0 THEN { << >> }
    ELSE Listings(S, n - 1) \cup
         { Append(l, x) : l \in {m \in Listings(S, n - 1) : Len(m) = n - 1},
                          x \in S }

Distinct(l) == \A i \in DOMAIN l, j \in DOMAIN l : i # j => l[i] # l[j]

RawPool ==
    { [name |-> <<"case1", "_DICOM">>, is_dir |-> TRUE, children |-> {}],
      [name |-> <<"case2">>, is_dir |-> TRUE,
       children |-> {<<"ct", ".nii", ".gz">>, <<"liver", "_", "MASK", ".nii", ".gz">>,
                     <<"readme", ".txt">>}],
      [name |-> <<"case3">>, is_dir |-> TRUE,
       children |-> {<<"a", "_", "mask", ".nii">>}],
      [name |-> <<"case1", ".nii", ".gz">>, is_dir |-> FALSE, children |-> {}],
      [name |-> <<"notes", ".txt">>, is_dir |-> FALSE, children |-> {}] }

OutChildren ==
    { [name |-> <<"liver", ".nii", ".gz">>, is_dir |-> FALSE],
      [name |-> <<"Liver", "_", "tumor", ".nii">>, is_dir |-> FALSE],
      [name |-> <<"vsnet", ".nii", ".gz">>, is_dir |-> FALSE],
      [name |-> <<"liver", ".nii", ".d">>, is_dir |-> TRUE],
      [name |-> <<"liver", ".txt">>, is_dir |-> FALSE] }

OutNames == { <<"case1">>, <<"case2">>, <<"case9">> }

RawRoots == { MkPath(FALSE, << <<"data">>, <<"awsInput">> >>),
              MkPath(TRUE, << <<"srv">>, <<"raw">> >>) }

OutputRoots == { MkPath(FALSE, << <<"data">>, <<"awsOutput">> >>),
                 MkPath(FALSE, << <<"~">>, <<"out">> >>) }

InitDiscover ==
    /\ \E raw_root \in RawRoots, output_root \in OutputRoots,
          raw \in {<<>>} \cup {<<l>> : l \in {m \in Listings(RawPool, MaxListing) : Distinct(m)}},
          name \in OutNames, is_dir \in BOOLEAN,
          children \in {m \in Listings(OutChildren, MaxListing) : Distinct(m)},
          more \in BOOLEAN, present \in BOOLEAN :
          query = [kind |-> "discover", raw_root |-> raw_root,
                   output_root |-> output_root, raw |-> raw,
                   out |-> IF ~present THEN <<>>
                           ELSE << <<[name |-> name, is_dir |-> is_dir,
                                      children |-> children]>>
                                   \o (IF more
                                       THEN <<[name |-> <<"case9">>, is_dir |-> TRUE,
                                               children |-> << >>]>>
                                       ELSE << >>) >>]
    /\ answer = <<>>
    /\ args = <<>>
    /\ fs = <<>>
    /\ pc = "idle"
    /\ img = <<>>
    /\ mask_img = <<>>
    /\ surfaces = EmptyDict
    /\ tumor_metrics = <<>>
    /\ raised = ""
    /\ result = <<>>
    /\ written = << >>
    /\ log = << >>
    /\ steps = << >>
    /\ NoSession

CallDiscoverCases ==
    /\ query.kind = "discover"
    /\ answer = <<>>
    /\ answer' = <<[of |-> "_discover_cases",
                    value |-> _discover_cases(query.raw_root, query.output_root,
                                              query.raw, query.out)]>>
    /\ UNCHANGED <<query, pipeline_vars, session_vars>>

NextDiscover == CallDiscoverCases

SpecDiscover == InitDiscover /\ [][NextDiscover]_vars

\* ---- run_pipeline as one call --------------------------------------------------

\* What a call of run_pipeline comes to: the exception that leaves it, or the
\* 4-tuple it returns
Raises(err) == [raised |-> err, data |-> <<>>]

Returns(ref_img, collection, liver_mask, metrics) ==
    [raised |-> "",
     data |-> <<[img |-> ref_img, surfaces |-> collection, mask_img |-> liver_mask,
                 tumor_metrics |-> metrics]>>]

\* surfaces = {}; if liver_surface: surfaces["liver"] = liver_surface
LiverOnly(b) ==
    IF b.surface # <<>> THEN Put(EmptyDict, Name_liver, b.surface[1]) ELSE EmptyDict

\* The volumetrics block: None without a Task08 path or when the block raises
\* (fault), else the dict of the summary
TumorMetrics(a, ref_img, fault) ==
    IF Falsy(a.task008_mask_path) \/ fault THEN <<>>
    ELSE <<MetricsDict(tumor_volume_summary(
               _read_mask_like(ref_img, ReadImage(a.task008_mask_path[1])[1]),
               <<2>>, 26))>>

\* The manual step and the return
ManualAndReturn(a, ref_img, liver_mask, collection, metrics) ==
    IF Falsy(a.manual_mask_path)
    THEN Returns(ref_img, collection, liver_mask, metrics)
    ELSE IF ReadImage(a.manual_mask_path[1]) = <<>> THEN Raises(ErrReadImage)
    ELSE Returns(ref_img,
                 _add_labeled_surfaces(ref_img, ReadImage(a.manual_mask_path[1])[1],
                                       VSNET_LABELS, collection, "VSNet", TRUE).surfaces,
                 liver_mask, metrics)

\* The Task08 step, the volumetrics and what follows
Task08AndOn(a, ref_img, liver_mask, collection, fault) ==
    IF Falsy(a.task008_mask_path)
    THEN ManualAndReturn(a, ref_img, liver_mask, collection, <<>>)
    ELSE IF ReadImage(a.task008_mask_path[1]) = <<>> THEN Raises(ErrReadImage)
    ELSE ManualAndReturn(a, ref_img, liver_mask,
             _add_labeled_surfaces(ref_img, ReadImage(a.task008_mask_path[1])[1],
                                   TASK08_LABELS, collection, "Task08", TRUE).surfaces,
             TumorMetrics(a, ref_img, fault))

\* The liver surface and what follows
LiverAndOn(a, ref_img, liver_mask, fault) ==
    Task08AndOn(a, ref_img, liver_mask,
                LiverOnly(_build_surface(liver_mask, Name_liver, LiverColor, <<>>)),
                fault)

\* The liver mask resolution and what follows
ResolveAndOn(a, ref_img, fault) ==
    IF Falsy(a.liver_mask_path) THEN Raises(ErrLiverRequired)
    ELSE IF ReadImage(a.liver_mask_path[1]) = <<>> THEN Raises(ErrReadImage)
    ELSE LiverAndOn(a, ref_img,
                    _read_mask_like(ref_img, ReadImage(a.liver_mask_path[1])[1]), fault)

\* run_pipeline(input_path, export_path, liver_mask_path=..., ...) as a whole,
\* its file writes aside; fault: the volumetrics block raises
run_pipeline(a, fault) ==
    IF ReadImage(a.input_path) = <<>> THEN Raises(ErrLoad)
    ELSE ResolveAndOn(a, _canonicalize_image(ReadImage(a.input_path)[1]), fault)

\* ---- The viewer (viewer.py) ------------------------------------------------------

\* _world_to_data_coords for one vertex, given at twice its physical position:
\* (direction.T @ (v - origin)) / spacing, reordered to (z, y, x)
WorldToData(v2, origin, direction, spacing) ==
    ZYX([a \in Axes |-> Quot((v2[a] - 2 * origin[a]) * direction[a], 2 * spacing[a])])

\* surface.get("display_name") or key.replace("_", " ").title()
LayerName(key, surface) ==
    IF surface.display_name # << >> THEN surface.display_name ELSE DisplayName(key)

\* The surfaces _add_surfaces does not skip
Shown(collection) ==
    {k \in DOMAIN collection :
        Len(collection[k].vertices) # 0 /\ Len(collection[k].faces) # 0}

\* viewer.add_surface((verts_napari, faces, values), name=display_name, ...),
\* layer.scale and the two-row constant colormap
SurfaceLayer(v, surface) ==
    [data |-> [i \in 1..Len(surface.vertices) |->
                 WorldToData(surface.vertices[i], v.origin_xyz, v.direction, v.spacing_xyz)],
     faces |-> surface.faces,
     values |-> [i \in 1..Len(surface.vertices) |-> 1],
     scale |-> v.spacing_zyx,
     colormap |-> <<surface.color, surface.color>>,
     visible |-> TRUE]

\* The key whose layer goes by the name dn
KeyOf(collection, dn) ==
    CHOOSE k \in Shown(collection) : LayerName(k, collection[k]) = dn

\* The loop of _add_surfaces over surfaces.items(), on top of the layers `old`
AddedLayers(v, old, collection) ==
    [dn \in (DOMAIN old) \cup {LayerName(k, collection[k]) : k \in Shown(collection)} |->
        IF \E k \in Shown(collection) : LayerName(k, collection[k]) = dn
        THEN SurfaceLayer(v, collection[KeyOf(collection, dn)])
        ELSE old[dn]]

AddedMeshes(old, collection) ==
    [dn \in (DOMAIN old) \cup {LayerName(k, collection[k]) : k \in Shown(collection)} |->
        IF \E k \in Shown(collection) : LayerName(k, collection[k]) = dn
        THEN [vertices |-> collection[KeyOf(collection, dn)].vertices,
              faces |-> collection[KeyOf(collection, dn)].faces]
        ELSE old[dn]]

\* HpbViewer._add_surfaces(surfaces, clear_existing)
_add_surfaces(v, collection, clear_existing) ==
    IF ~v.has_window THEN v
    ELSE [v EXCEPT
            !.surface_layers =
                AddedLayers(v, IF clear_existing THEN EmptyDict ELSE v.surface_layers,
                            collection),
            !.surface_meshes_world =
                AddedMeshes(IF clear_existing THEN EmptyDict ELSE v.surface_meshes_world,
                            collection)]

\* _volume_layer_name(): "CT (case)" or "CT"
VolumeLayerName(volume_name, current_case) ==
    IF current_case # "" THEN <<volume_name, current_case>> ELSE <<volume_name>>

\* HpbViewer.__init__(image, case_catalog=..., case_loader=..., current_case=...)
\* case_loader is "" for None
HpbViewer(image, catalog, case_loader, current_case) ==
    [image_sitk |-> image,
     volume_name |-> "CT",
     has_window |-> FALSE,
     volume_data |-> <<>>,
     surface_layers |-> EmptyDict,
     surface_meshes_world |-> EmptyDict,
     case_list_widget |-> <<>>,
     suppress_case_signal |-> FALSE,
     case_catalog |-> catalog,
     case_loader |-> case_loader,
     current_case |-> current_case,
     spacing_xyz |-> image.spacing,
     spacing_zyx |-> ZYX(image.spacing),
     origin_xyz |-> image.origin,
     direction |-> image.direction,
     vol_layer |-> <<>>]

\* _ensure_viewer(): the napari window and the volume layer, once
_ensure_viewer(v) ==
    IF v.has_window THEN v
    ELSE [v EXCEPT
            !.has_window = TRUE,
            !.volume_data = <<GetArrayFromImage(v.image_sitk)>>,
            !.vol_layer = <<[data |-> GetArrayFromImage(v.image_sitk),
                             name |-> VolumeLayerName(v.volume_name, v.current_case),
                             scale |-> v.spacing_zyx]>>]

\* The order of sorted() on the case names of the model
CaseOrder == <<"a", "b", "c">>

InCatalog(catalog, name) == name \in DOMAIN catalog

\* sorted(self.case_catalog.keys())
SortedCases(catalog) == SelectSeq(CaseOrder, LAMBDA n : InCatalog(catalog, n))

\* The row the blocked selection of _setup_side_panel lands on
SelectedRow(items, current_case) ==
    IF current_case # "" /\ \E i \in DOMAIN items : items[i] = current_case
    THEN <<current_case>>
    ELSE IF Len(items) > 0 THEN <<items[1]>> ELSE <<>>

\* _setup_side_panel(): the sidebar is rebuilt; the case list exists when
\* there are a catalog and a loader, and its current row is set with the
\* list's signals blocked
_setup_side_panel(v) ==
    IF ~v.has_window THEN v
    ELSE IF DOMAIN v.case_catalog # {} /\ v.case_loader # ""
    THEN [v EXCEPT !.case_list_widget =
             <<[items |-> SortedCases(v.case_catalog),
                current |-> SelectedRow(SortedCases(v.case_catalog), v.current_case)]>>]
    ELSE [v EXCEPT !.case_list_widget = <<>>]

\* sitk.IntensityWindowing(img, -200, 250, -200, 250)
Windowed(x) == IF x < -200 THEN -200 ELSE IF x > 250 THEN 250 ELSE x

\* The body mask of _build_abdomen_surface as a (z, y, x) array: the window,
\* the threshold -300..3071, then closing and hole filling, which only add
\* foreground
BodyArray(image) ==
    [shape |-> ZYX(image.size),
     at |-> [zyx \in Idx(ZYX(image.size)) |->
               IF Windowed(image.data[ZYX(zyx)]) >= -300
                    /\ Windowed(image.data[ZYX(zyx)]) <= 3071
               THEN 1 ELSE 0]]

\* arr.max() == 0: None; else self._mesher.mask_to_surface(arr, spacing, origin)
AbdomenOf(arr, v) ==
    IF \A zyx \in DOMAIN arr.at : arr.at[zyx] = 0
    THEN [err |-> "", vertices |-> << >>, faces |-> << >>]
    ELSE mask_to_surface(arr, v.spacing_xyz, <<v.image_sitk.origin>>, DefaultLabel)

\* _build_abdomen_surface(): None, the mesh, or the ValueError of the extractor
_build_abdomen_surface(v) == AbdomenOf(BodyArray(v.image_sitk), v)

\* The abdomen dict with its defaults
AbdomenCollection(abdo) ==
    Put(EmptyDict, <<"a", "b", "d", "o", "m", "e", "n">>,
        [vertices |-> abdo.vertices, faces |-> abdo.faces, color |-> <<60, 60, 60, 100>>,
         display_name |-> <<"A", "b", "d", "o", "m", "e", "n">>])

\* The abdomen block of show_with_surfaces: a failed build is only printed
WithAbdomen(v, abdo) ==
    IF abdo.err # "" \/ Len(abdo.vertices) = 0 THEN v
    ELSE _add_surfaces(v, AbdomenCollection(abdo), FALSE)

AbdomenAdded(v) == WithAbdomen(v, _build_abdomen_surface(v))

\* show_with_surfaces(surfaces), up to napari.run()
show_with_surfaces(v, collection) ==
    _setup_side_panel(AbdomenAdded(_add_surfaces(_ensure_viewer(v), collection, TRUE)))

\* The assignments of _on_case_selected between the loader's return and the
\* sidebar rebuild
CaseShown(v, case_name, image) ==
    [v EXCEPT
       !.current_case = case_name,
       !.image_sitk = image,
       !.volume_data = <<GetArrayFromImage(image)>>,
       !.spacing_xyz = image.spacing,
       !.spacing_zyx = ZYX(image.spacing),
       !.origin_xyz = image.origin,
       !.direction = image.direction,
       !.vol_layer = IF v.vol_layer = <<>> THEN <<>>
                     ELSE <<[data |-> GetArrayFromImage(image),
                             name |-> VolumeLayerName(v.volume_name, case_name),
                             scale |-> ZYX(image.spacing)]>>]

\* ... and self._add_surfaces(surfaces, clear_existing=True);
\* self._suppress_case_signal = True
ShowCase(v, case_name, image, collection) ==
    [_add_surfaces(CaseShown(v, case_name, image), collection, TRUE)
        EXCEPT !.suppress_case_signal = TRUE]

\* ---- The viewer session of main() (app.py, viewer.py) ---------------------------

MaxSelections == 3

CaseNames == {"a", "b", "c"}

\* What a case comes with: every mask, the liver mask only, or no mask
CaseKinds(name) ==
    CASE name = "a" -> {"full", "liver"}
      [] name = "b" -> {"full", "noliver"}
      [] OTHER -> {"liver", "noliver"}

CtPath(name) ==
    CASE name = "a" -> "/raw/a.nii.gz" [] name = "b" -> "/raw/b.nii.gz"
      [] OTHER -> "/raw/c.nii.gz"

LiverMaskPath(name) ==
    CASE name = "a" -> "/out/a/liver.nii.gz" [] name = "b" -> "/out/b/liver.nii.gz"
      [] OTHER -> "/out/c/liver.nii.gz"

Task008MaskPath(name) ==
    CASE name = "a" -> "/out/a/task008.nii.gz" [] name = "b" -> "/out/b/task008.nii.gz"
      [] OTHER -> "/out/c/task008.nii.gz"

SessionPaths ==
    {CtPath(n) : n \in CaseNames} \cup {LiverMaskPath(n) : n \in CaseNames}
        \cup {Task008MaskPath(n) : n \in CaseNames}

\* The scanner geometry, the CT values and the liver voxel of each case
CaseGeometry(name) ==
    CASE name = "a" -> [spacing |-> UnitSpacing, origin |-> ZeroOrigin,
                        direction |-> IdentityDirection]
      [] name = "b" -> [spacing |-> <<2, 1, 1>>, origin |-> ZeroOrigin,
                        direction |-> IdentityDirection]
      [] OTHER -> [spacing |-> UnitSpacing, origin |-> <<Dim - 1, 0, 0>>,
                   direction |-> <<-1, 1, 1>>]

CtData(name) ==
    CASE name = "a" -> Labelled({Corner}, {}, {})
      [] name = "b" -> Labelled({}, {Corner}, {})
      [] OTHER -> Labelled({}, {}, {})

LiverVoxel(name) ==
    CASE name = "a" -> Corner [] name = "b" -> Opposite [] OTHER -> LastX

\* The entry of a case in the catalog that _discover_cases returns
CatalogEntry(name, kind) ==
    CASE kind = "full" ->
           [k \in {"dicom_path", "liver_mask", "task008_mask"} |->
              CASE k = "dicom_path" -> CtPath(name)
                [] k = "liver_mask" -> LiverMaskPath(name)
                [] OTHER -> Task008MaskPath(name)]
      [] kind = "liver" ->
           [k \in {"dicom_path", "liver_mask"} |->
              IF k = "dicom_path" THEN CtPath(name) ELSE LiverMaskPath(name)]
      [] OTHER -> [k \in {"dicom_path"} |-> CtPath(name)]

\* The files of the cases: a mask file exists when the catalog lists it
SessionFile(catalog, p) ==
    IF \E n \in CaseNames : p = CtPath(n)
    THEN LET n == CHOOSE n \in CaseNames : p = CtPath(n)
         IN  <<FileOf(CaseGeometry(n), CtData(n))>>
    ELSE IF \E n \in CaseNames : p = LiverMaskPath(n) /\ "liver_mask" \in DOMAIN catalog[n]
    THEN LET n == CHOOSE n \in CaseNames : p = LiverMaskPath(n)
         IN  <<FileOf(CaseGeometry(n), Labelled({LiverVoxel(n)}, {}, {}))>>
    ELSE IF \E n \in CaseNames : p = Task008MaskPath(n) /\ "task008_mask" \in DOMAIN catalog[n]
    THEN LET n == CHOOSE n \in CaseNames : p = Task008MaskPath(n)
         IN  <<FileOf(CaseGeometry(n), Labelled({<<1, 0, 0>>}, {Corner, Opposite}, {}))>>
    ELSE <<>>

\* How the viewer comes up: "main" is app.main() as written; "script" is a
\* caller that builds the catalog and the loader as main() does and hands
\* HpbViewer the parameters it declares.  The loader is main()'s _load_case,
\* which returns run_pipeline's 4-tuple, or its first three items, the shape
\* of viewer.CaseLoader.
Entries == {"main", "script"}

Loaders == {"_load_case", "_load_case[:3]"}

InitSession ==
    /\ \E kinds \in {k \in [CaseNames -> {"full", "liver", "noliver"}] :
                          \A n \in CaseNames : k[n] \in CaseKinds(n)},
          initial_case \in CaseNames, entry \in Entries, loader \in Loaders :
          /\ entry = "main" => loader = "_load_case"
          /\ case_catalog = [n \in CaseNames |-> CatalogEntry(n, kinds[n])]
          /\ session = [entry |-> entry, loader |-> loader, initial_case |-> initial_case]
          /\ fs = [p \in SessionPaths |->
                     SessionFile([n \in CaseNames |-> CatalogEntry(n, kinds[n])], p)]
    /\ case_cache = << >>
    /\ lru = << >>
    /\ collections = << >>
    /\ calls = << >>
    /\ viewer = <<>>
    /\ vpc = "start"
    /\ query = NoQuery
    /\ answer = <<>>
    /\ args = <<>>
    /\ pc = "idle"
    /\ img = <<>>
    /\ mask_img = <<>>
    /\ surfaces = EmptyDict
    /\ tumor_metrics = <<>>
    /\ raised = ""
    /\ result = <<>>
    /\ written = << >>
    /\ log = << >>
    /\ steps = << >>

\* info.get(key)
Get(info, key) == IF key \in DOMAIN info THEN <<info[key]>> ELSE <<>>

\* The arguments _load_case and main() pass to run_pipeline for a catalog entry
ArgsOf(info, export_path, save_mask_path) ==
    [input_path |-> info["dicom_path"], export_path |-> export_path,
     liver_mask_path |-> Get(info, "liver_mask"), save_mask_path |-> save_mask_path,
     task008_mask_path |-> Get(info, "task008_mask"),
     manual_mask_path |-> Get(info, "manual_mask")]

\* The 4-tuple of a run whose surfaces dict is the collection number id
Tuple4(data, id) ==
    [img |-> data.img, surfaces |-> id, mask_img |-> data.mask_img,
     tumor_metrics |-> data.tumor_metrics]

ErrNoCaseData == "No case data available"

\* A run whose surfaces dict starts from what the run before it left behind
RanPipeline_KeepsSurfaces(r, id) ==
    [raised |-> r.raised, ran |-> TRUE,
     value |-> IF r.raised = "" THEN <<Tuple4(r.data[1], id)>> ELSE <<>>,
     built |-> IF r.raised = ""
               THEN <<[k \in DOMAIN r.data[1].surfaces \cup DOMAIN collections[id - 1] |->
                         IF k \in DOMAIN r.data[1].surfaces THEN r.data[1].surfaces[k]
                         ELSE collections[id - 1][k]]>>
               ELSE <<>>]

\* A call of run_pipeline from _load_case, as the loader sees it
RanPipeline(r, id) ==
    [raised |-> r.raised, ran |-> TRUE,
     value |-> IF r.raised = "" THEN <<Tuple4(r.data[1], id)>> ELSE <<>>,
     built |-> IF r.raised = "" THEN <<r.data[1].surfaces>> ELSE <<>>]

NotRun(err, value) == [raised |-> err, ran |-> FALSE, value |-> value, built |-> <<>>]

\* The body of _load_case(name)
LoadCaseBody(name, fault) ==
    IF name = session.initial_case THEN NotRun("", <<case_cache[session.initial_case]>>)
    ELSE IF name \notin DOMAIN case_catalog \/ DOMAIN case_catalog[name] = {}
    THEN NotRun(ErrNoCaseData, <<>>)
    ELSE RanPipeline(run_pipeline(ArgsOf(case_catalog[name], <<>>, <<>>), fault),
                     Len(collections) + 1)

\* The outcome of a call that lru_cache let through to the body
Missed(r) ==
    [raised |-> r.raised, ran |-> r.ran, value |-> r.value, built |-> r.built,
     hit |-> FALSE]

\* A loader without the lru_cache decorator
_load_case_Uncached(name, fault) == Missed(LoadCaseBody(name, fault))

\* _load_case(name) under @lru_cache(maxsize=None): a name that returned
\* before is answered from the cache; an exception is not cached
_load_case(name, fault) ==
    IF name \in DOMAIN lru
    THEN [raised |-> "", ran |-> FALSE, value |-> <<lru[name]>>, built |-> <<>>,
          hit |-> TRUE]
    ELSE Missed(LoadCaseBody(name, fault))

\* The number of items the viewer's case_loader returns
TupleLength(loader) == IF loader = "_load_case" THEN 4 ELSE 3

\* img, surfaces, _ = self.case_loader(case_name)
Unpacks(loader) == TupleLength(loader) = 3

\* The record of one call of _on_case_selected
CallRec(case_name, nested, r, shown) ==
    [case_name |-> case_name, nested |-> nested, current_before |-> viewer[1].current_case,
     suppressed |-> viewer[1].suppress_case_signal,
     loader_called |-> r # <<>>,
     hit |-> r # <<>> /\ r[1].hit,
     ran |-> r # <<>> /\ r[1].ran,
     raised |-> IF r = <<>> THEN "" ELSE r[1].raised,
     value |-> IF r = <<>> THEN <<>> ELSE r[1].value,
     shown |-> shown]

\* A pipeline that fills one surfaces dict shared by all runs
LoaderEffects_SharedDict(name, r) ==
    /\ lru' = IF r.raised = "" /\ ~r.hit THEN Put(lru, name, r.value[1]) ELSE lru
    /\ case_cache' = IF r.ran /\ r.raised = "" THEN Put(case_cache, name, r.value[1])
                     ELSE case_cache
    /\ collections' = IF r.built # <<>>
                      THEN Append([collections EXCEPT ![1] = r.built[1]], r.built[1])
                      ELSE collections

\* The effect of a loader call on the caches and on the collections built
LoaderEffects(name, r) ==
    /\ lru' = IF r.raised = "" /\ ~r.hit THEN Put(lru, name, r.value[1]) ELSE lru
    /\ case_cache' = IF r.ran /\ r.raised = "" THEN Put(case_cache, name, r.value[1])
                     ELSE case_cache
    /\ collections' = IF r.built # <<>> THEN Append(collections, r.built[1])
                      ELSE collections

\* A handler that records the selected name before it calls the loader
AfterLoader_AssignsFirst(case_name, r) ==
    /\ LoaderEffects(case_name, r)
    /\ IF r.raised # "" \/ ~Unpacks(session.loader)
       THEN /\ calls' = Append(calls, CallRec(case_name, FALSE, <<r>>, FALSE))
            /\ viewer' = <<[viewer[1] EXCEPT !.current_case = case_name]>>
            /\ UNCHANGED vpc
       ELSE /\ viewer' = <<ShowCase(viewer[1], case_name, r.value[1].img,
                                    IF r.built # <<>> THEN r.built[1]
                                    ELSE collections[r.value[1].surfaces])>>
            /\ calls' = Append(calls, CallRec(case_name, FALSE, <<r>>, TRUE))
            /\ vpc' = "rebuild"

\* _on_case_selected from the try on, with the loader's outcome r
AfterLoader(case_name, r) ==
    /\ LoaderEffects(case_name, r)
    /\ IF r.raised # "" \/ ~Unpacks(session.loader)
       THEN \* except Exception: print(...); return
            /\ calls' = Append(calls, CallRec(case_name, FALSE, <<r>>, FALSE))
            /\ UNCHANGED <<viewer, vpc>>
       ELSE /\ viewer' = <<ShowCase(viewer[1], case_name, r.value[1].img,
                                    IF r.built # <<>> THEN r.built[1]
                                    ELSE collections[r.value[1].surfaces])>>
            /\ calls' = Append(calls, CallRec(case_name, FALSE, <<r>>, TRUE))
            /\ vpc' = "rebuild"

\* main() from the first run_pipeline call to viewer.show_with_surfaces(...).
\* A run that raises ends main(); HpbViewer(..., current_metrics=...) and
\* show_with_surfaces(surfaces, metrics=...) pass a keyword the viewer does
\* not declare, so main() as written ends in a TypeError.
LaunchWith(r) ==
    IF r.raised # ""
    THEN /\ vpc' = "exited"
         /\ UNCHANGED <<case_cache, collections, viewer>>
    ELSE /\ collections' = <<r.data[1].surfaces>>
         /\ case_cache' = Put(EmptyDict, session.initial_case, Tuple4(r.data[1], 1))
         /\ IF session.entry = "main"
            THEN /\ vpc' = "crashed"
                 /\ UNCHANGED viewer
            ELSE /\ viewer' = <<show_with_surfaces(
                                  HpbViewer(r.data[1].img, case_catalog, session.loader,
                                            session.initial_case),
                                  r.data[1].surfaces)>>
                 /\ vpc' = "idle"

Launch ==
    /\ vpc = "start"
    /\ \E fault \in BOOLEAN :
          LaunchWith(run_pipeline(ArgsOf(case_catalog[session.initial_case], <<>>, <<>>),
                                  fault))
    /\ UNCHANGED <<session, case_catalog, lru, calls, query, answer, pipeline_vars>>

\* The texts the case list can emit with currentTextChanged
Emitted == IF viewer[1].case_list_widget = <<>> THEN {}
           ELSE {viewer[1].case_list_widget[1].items[i] :
                    i \in DOMAIN viewer[1].case_list_widget[1].items} \cup {""}

\* HpbViewer._on_case_selected(case_name), called from the event loop, up to
\* the sidebar rebuild
OnCaseSelected(case_name) ==
    /\ vpc = "idle"
    /\ Len(calls) < MaxSelections
    /\ case_name \in Emitted
    /\ IF viewer[1].suppress_case_signal
          \/ case_name = "" \/ case_name = viewer[1].current_case
          \/ viewer[1].case_loader = ""
       THEN /\ calls' = Append(calls, CallRec(case_name, FALSE, <<>>, FALSE))
            /\ UNCHANGED <<viewer, vpc, lru, case_cache, collections>>
       ELSE \E fault \in BOOLEAN : AfterLoader(case_name, _load_case(case_name, fault))
    /\ UNCHANGED <<session, case_catalog, query, answer, pipeline_vars>>

\* A selection signal that arrives while the sidebar is being rebuilt inside
\* _on_case_selected: the handler is entered again and returns at its first test
NestedCaseSelected(case_name) ==
    /\ vpc = "rebuild"
    /\ Len(calls) < MaxSelections
    /\ case_name \in CaseNames \cup {""}
    /\ IF viewer[1].suppress_case_signal
          \/ case_name = "" \/ case_name = viewer[1].current_case
          \/ viewer[1].case_loader = ""
       THEN /\ calls' = Append(calls, CallRec(case_name, TRUE, <<>>, FALSE))
            /\ UNCHANGED <<viewer, vpc, lru, case_cache, collections>>
       ELSE \E fault \in BOOLEAN : AfterLoader(case_name, _load_case(case_name, fault))
    /\ UNCHANGED <<session, case_catalog, query, answer, pipeline_vars>>

\* The sidebar of a rebuild that raised part way: the old dock is gone and
\* no case list has been built
SidebarLost(v) == [v EXCEPT !.case_list_widget = <<>>]

\* A rebuild without the finally clause: the flag is reset only when
\* _setup_side_panel returns
FinishRebuild_NoFinally ==
    /\ vpc = "rebuild"
    /\ \E ok \in BOOLEAN :
          viewer' = <<IF ok
                      THEN [_setup_side_panel(viewer[1]) EXCEPT !.suppress_case_signal = FALSE]
                      ELSE SidebarLost(viewer[1])>>
    /\ vpc' = "idle"
    /\ UNCHANGED <<session, case_catalog, case_cache, lru, collections, calls, query,
                   answer, pipeline_vars>>

\* try: self._setup_side_panel()  finally: self._suppress_case_signal = False
\* The rebuild returns or raises; either way the finally clause runs.
FinishRebuild ==
    /\ vpc = "rebuild"
    /\ \E ok \in BOOLEAN :
          viewer' = <<[(IF ok THEN _setup_side_panel(viewer[1]) ELSE SidebarLost(viewer[1]))
                        EXCEPT !.suppress_case_signal = FALSE]>>
    /\ vpc' = "idle"
    /\ UNCHANGED <<session, case_catalog, case_cache, lru, collections, calls, query,
                   answer, pipeline_vars>>

NextSession ==
    \/ Launch
    \/ \E case_name \in CaseNames \cup {""} : OnCaseSelected(case_name)
    \/ \E case_name \in CaseNames \cup {""} : NestedCaseSelected(case_name)
    \/ FinishRebuild

SpecSession == InitSession /\ [][NextSession]_vars

\* ---- Properties ---------------------------------------------------------------

Last(seq) == seq[Len(seq)]

Did(step) == \E i \in 1..Len(steps) : steps[i] = step

Logged(msg) == \E i \in 1..Len(log) : log[i].msg = msg

LoggedAbout(msg, about) ==
    \E i \in 1..Len(log) : log[i].msg = msg /\ log[i].about = about

Running == pc \notin {"idle", "raised", "returned"}

\* liver_mask_path is None or ""
NoLiverPath == pc # "idle" /\ args.liver_mask_path \in {<<>>, <<"">>}

\* Nothing of steps 3 to 8 has happened: no surface, no metrics, no file.
NothingBuilt ==
    /\ surfaces = EmptyDict
    /\ tumor_metrics = <<>>
    /\ written = << >>
    /\ result = <<>>
    /\ \A i \in 1..Len(steps) : steps[i] \in {"load", "resolve_liver"}

\* C1 as stated: run_pipeline called with no liver mask path (None or empty)
\* fails with the missing-liver-mask error, before any surface is built, any
\* volumetrics are computed and any mask or mesh file is written.
C1_AsStated ==
    (NoLiverPath /\ ~Running) => (raised = ErrLiverRequired /\ NothingBuilt)

\* C1, amended: with no liver mask path run_pipeline never returns and builds,
\* computes and writes nothing; it never stops short of raising; the error is
\* the missing-liver-mask error when the reference volume loaded, and the
\* loader's error otherwise.
C1_NoLiverPathIsFatal ==
    NoLiverPath =>
        /\ pc \in {"load", "resolve_liver", "raised"}
        /\ NothingBuilt
        /\ Running => ENABLED Next
        /\ pc = "raised" =>
              /\ img # <<>> => raised = ErrLiverRequired
              /\ img = <<>> => raised = ErrLoad

C1_Witness ==
    /\ pc = "raised"
    /\ args.liver_mask_path = <<"">>
    /\ raised = ErrLiverRequired
    /\ img # <<>>

AllSteps ==
    <<"load", "resolve_liver", "build_liver", "task08", "metrics", "manual",
      "export", "return">>

Task008Given == pc # "idle" /\ args.task008_mask_path = <<Task008Path>>

ManualGiven == pc # "idle" /\ args.manual_mask_path = <<ManualPath>>

LiverSelection == {v \in Grid : mask_img[1].data[v] > 0}

\* No foreground voxel, or a foreground without a boundary inside the volume
\* (marching cubes then returns no points and mask_to_surface raises).
LiverUnmeshable ==
    mask_img # <<>> /\ (LiverSelection = {} \/ LiverSelection = Grid)

\* C3: when the liver mask has no foreground voxel or liver surface extraction
\* fails, run_pipeline does not abort: the liver step hands over to the
\* vessel/tumor step, the run goes on through the volumetrics, manual, export
\* and return steps (stopping only for a later step's own error), and the
\* surfaces it returns have no "liver" key.
C3_EmptyLiverIsNotFatal ==
    (Did("build_liver") /\ LiverUnmeshable) =>
        /\ Name_liver \notin DOMAIN surfaces
        /\ Last(steps) = "build_liver" => (pc = "task08" /\ raised = "")
        /\ pc = "returned" =>
              (steps = AllSteps /\ Name_liver \notin DOMAIN result[1].surfaces)
        /\ pc = "raised" =>
              (Last(steps) \in {"task08", "manual"} /\ raised = ErrReadImage)

C3_Witness ==
    /\ pc = "returned"
    /\ LiverSelection = {}
    /\ Name_liver \notin DOMAIN result[1].surfaces
    /\ Name_liver_tumors \in DOMAIN result[1].surfaces
    /\ result[1].tumor_metrics # <<>>

\* The vessel/tumor and manual masks as the builder reads them
TaskMask == _read_mask_like(img[1], fs[Task008Path][1])

ManualMask == _read_mask_like(img[1], fs[ManualPath][1])

SelOf(m, label) == {v \in Grid : m.data[v] = label}

\* A selection marching cubes can mesh: some voxel in, some voxel out
Meshable(sel) == sel # {} /\ sel # Grid

\* The builder has just run on a mask it could read
AfterTask == steps # << >> /\ Last(steps) = "task08" /\ Task008Given /\ fs[Task008Path] # <<>>

AfterManual == steps # << >> /\ Last(steps) = "manual" /\ ManualGiven /\ fs[ManualPath] # <<>>

SkipLogged(name, sel) ==
    IF sel = {} THEN LoggedAbout("mesh is empty", name)
    ELSE LoggedAbout("marching cubes failed", name)

EveryLabelHandled(label_map, m) ==
    \A i \in 1..Len(label_map) :
        LET e == label_map[i]
            sel == SelOf(m, e.label)
        IN  IF Meshable(sel)
            THEN e.name \in DOMAIN surfaces
            ELSE e.name \notin DOMAIN surfaces /\ SkipLogged(e.name, sel)

\* C4: on a readable mask _add_labeled_surfaces does not raise for a label
\* that is absent, empty or degenerate: the call completes, every label of the
\* map is attempted (a meshable label after a skipped one still gets its
\* surface), and a skipped label leaves a log record and no key.
C4_BuilderSkipsAndContinues ==
    /\ AfterTask => (pc = "metrics" /\ raised = "" /\ EveryLabelHandled(TASK08_LABELS, TaskMask))
    /\ AfterManual => (pc = "export" /\ raised = "" /\ EveryLabelHandled(VSNET_LABELS, ManualMask))

C4_Witness ==
    /\ AfterTask
    /\ SelOf(TaskMask, 1) = {}
    /\ Name_hepatic_vessels_OLD \notin DOMAIN surfaces
    /\ Name_liver_tumors \in DOMAIN surfaces

\* What name.replace("_", " ").title() is to give for the configured names
ExpectedDisplayName(name) ==
    IF name = Name_hepatic_vessels_OLD
    THEN <<"H", "e", "p", "a", "t", "i", "c", " ", "V", "e", "s", "s", "e", "l", "s", " ", "O", "l", "d">>
    ELSE IF name = Name_liver_tumors
    THEN <<"L", "i", "v", "e", "r", " ", "T", "u", "m", "o", "r", "s">>
    ELSE IF name = Name_hepatic_vein
    THEN <<"H", "e", "p", "a", "t", "i", "c", " ", "V", "e", "i", "n">>
    ELSE IF name = Name_portal_vein
    THEN <<"P", "o", "r", "t", "a", "l", " ", "V", "e", "i", "n">>
    ELSE name

\* The map entries whose label is present in mask m and meshable
MeshableEntries(label_map, m) ==
    {i \in 1..Len(label_map) : Meshable(SelOf(m, label_map[i].label))}

\* This step adds to surfaces exactly one entry per meshable label of the map,
\* under the label's name, with the map's color and the title-cased display
\* name, and leaves the entries that were there as they were.
BuilderAdds(label_map, m) ==
    LET added == {label_map[i].name : i \in MeshableEntries(label_map, m)}
    IN  /\ added \cap DOMAIN surfaces = {}
        /\ DOMAIN surfaces' = DOMAIN surfaces \cup added
        /\ \A k \in DOMAIN surfaces : surfaces'[k] = surfaces[k]
        /\ \A i \in MeshableEntries(label_map, m) :
              /\ surfaces'[label_map[i].name].color = label_map[i].color
              /\ surfaces'[label_map[i].name].display_name
                    = ExpectedDisplayName(label_map[i].name)
              /\ Len(surfaces'[label_map[i].name].vertices) > 0
              /\ Len(surfaces'[label_map[i].name].faces) > 0

TumorVoxels == SelOf(TaskMask, 2)

RECURSIVE SumVoxelCounts(_, _)
SumVoxelCounts(components, i) ==
    IF i > Len(components) THEN 0
    ELSE components[i].voxel_count + SumVoxelCounts(components, i + 1)

\* All voxels of sel lie within one 2 x 2 x 2 block: under 26-connectivity
\* each of them is a neighbour of every other.
WithinOneBlock(sel) == \A u \in sel, v \in sel : \A a \in Axes : Abs(u[a] - v[a]) <= 1

\* tumor_metrics holds the 26-connected label 2 volumetrics of the task mask
TumorMetricsOfTaskMask ==
    LET m == tumor_metrics[1]
    IN  /\ SumVoxelCounts(m.components, 1) = Cardinality(TumorVoxels)
        /\ m.total_mm3 = Cardinality(TumorVoxels)
                            * img[1].spacing[1] * img[1].spacing[2] * img[1].spacing[3]
        /\ RatEq(m.total_ml, <<m.total_mm3, 1000>>)
        /\ TumorVoxels = {} => m.components = << >>
        /\ (TumorVoxels # {} /\ WithinOneBlock(TumorVoxels)) => Len(m.components) = 1

\* C6: whenever a vessel/tumor mask path is given to run_pipeline, once the
\* volumetrics step is done tumor_metrics holds the connected-component
\* volumetrics of label 2 at 26-connectivity (unless the step logged a
\* failure), whether or not a tumor or vessel surface was extracted from that
\* mask: tumor voxels that gave no surface are still counted.
C6_VolumetricsIndependentOfSurfaces ==
    (Did("metrics") /\ Task008Given) =>
        /\ tumor_metrics = <<>> <=> Logged("failed to compute tumour volume")
        /\ tumor_metrics # <<>> => TumorMetricsOfTaskMask

C6_Witness ==
    /\ pc = "returned"
    /\ Task008Given
    /\ Name_liver_tumors \notin DOMAIN result[1].surfaces
    /\ result[1].tumor_metrics # <<>>
    /\ result[1].tumor_metrics[1].total_mm3 = Cardinality(Grid)

\* The volumetrics step takes its except branch
VolumetricsFails ==
    /\ pc = "metrics"
    /\ Len(log') = Len(log) + 1
    /\ Last(log').msg = "failed to compute tumour volume"

\* A run whose volumetrics failed goes on as any other
GoesOnAfterVolumetricsFailure ==
    Logged("failed to compute tumour volume") =>
        /\ tumor_metrics = <<>>
        /\ raised \in {"", ErrReadImage, ErrSaveMesh}
        /\ pc = "raised" => Last(steps) \in {"manual", "export"}
        /\ pc = "returned" => (steps = AllSteps /\ result[1].tumor_metrics = <<>>)

\* C7: if the volumetrics step raises an exception, run_pipeline catches it,
\* sets tumor_metrics to None, leaves the surfaces already collected unchanged
\* and goes on to the manual-mask step, the optional export and the return.
C7_VolumetricsFailureIsCaught ==
    /\ [][VolumetricsFails =>
            /\ tumor_metrics' = <<>>
            /\ surfaces' = surfaces
            /\ raised' = ""
            /\ pc' = "manual"]_vars
    /\ []GoesOnAfterVolumetricsFailure

C7_Witness ==
    /\ pc = "returned"
    /\ Logged("failed to compute tumour volume")
    /\ result[1].tumor_metrics = <<>>
    /\ Name_liver_tumors \in DOMAIN result[1].surfaces
    /\ Name_hepatic_vein \in DOMAIN result[1].surfaces
    /\ \E i \in 1..Len(written) : written[i].kind = "mesh"

\* ---- Properties of the volumetrics calls ---------------------------------

Answered(fn) == answer # <<>> /\ answer[1].of = fn

\* The voxels of the queried mask that match the label selection
Matching ==
    {v \in Grid : IF query.label_value = <<>> THEN query.mask.data[v] > 0
                  ELSE query.mask.data[v] = query.label_value[1]}

RECURSIVE SumOfComponentVolumes(_, _)
SumOfComponentVolumes(components, i) ==
    IF i > Len(components) THEN 0
    ELSE components[i].volume_mm3 + SumOfComponentVolumes(components, i + 1)

\* C8: for any mask and label selection tumor_volume_summary reports
\* total_mm3 = (number of matching voxels) x (spacing.x x spacing.y x
\* spacing.z), equal to the sum of the components' volume_mm3, and total_ml =
\* total_mm3 / 1000; with spacing (1,1,1) and N matching voxels the total is
\* N mm3 and N/1000 mL.
C8_VolumeConservation ==
    Answered("tumor_volume_summary") =>
        LET r == answer[1].value
            N == Cardinality(Matching)
            sp == query.mask.spacing
        IN  /\ r.total_mm3 = N * (sp[1] * sp[2] * sp[3])
            /\ r.total_mm3 = SumOfComponentVolumes(r.components, 1)
            /\ RatEq(r.total_ml, <<r.total_mm3, 1000>>)
            /\ sp = <<1, 1, 1>> => (r.total_mm3 = N /\ RatEq(r.total_ml, <<N, 1000>>))

C8_Witness ==
    /\ Answered("tumor_volume_summary")
    /\ query.mask.spacing = <<2, 1, 3>>
    /\ Cardinality(Matching) = 2
    /\ Len(answer[1].value.components) = 2
    /\ answer[1].value.total_mm3 = 12

\* Two voxels that touch only at a corner, or only along an edge
CornerOnly(u, v) == \A a \in Axes : Abs(u[a] - v[a]) = 1

EdgeOnly(u, v) ==
    /\ \A a \in Axes : Abs(u[a] - v[a]) <= 1
    /\ Cardinality({a \in Axes : u[a] # v[a]}) = 2

MatchingIsPair(Touch(_, _)) ==
    /\ Cardinality(Matching) = 2
    /\ \A u \in Matching, v \in Matching : u # v => Touch(u, v)

\* C9: component_volumes reports two foreground voxels that touch only at a
\* corner as one component when connectivity = 26 and as two components when
\* connectivity = 6.
C9_CornerPairBy26And6 ==
    (Answered("component_volumes") /\ MatchingIsPair(CornerOnly)) =>
        /\ query.connectivity = 26 => Len(answer[1].value) = 1
        /\ query.connectivity = 6 => Len(answer[1].value) = 2

C9_Witness ==
    /\ Answered("component_volumes")
    /\ MatchingIsPair(CornerOnly)
    /\ query.connectivity = 26
    /\ Len(answer[1].value) = 1
    /\ answer[1].value[1].voxel_count = 2

\* C10 as stated: component_volumes with connectivity = 18 uses face and edge
\* adjacency: two foreground voxels sharing only an edge are one component,
\* two sharing only a corner are two components.
C10_AsStated ==
    (Answered("component_volumes") /\ query.connectivity = 18) =>
        /\ MatchingIsPair(EdgeOnly) => Len(answer[1].value) = 1
        /\ MatchingIsPair(CornerOnly) => Len(answer[1].value) = 2

\* C11: when no voxel of the mask matches the label selection,
\* component_volumes returns an empty list and tumor_volume_summary returns
\* ([], 0, 0); in run_pipeline a task mask without tumor voxels gives a
\* tumor_metrics that is not None, with no components and zero totals.
C11_NoMatchIsEmptyNotError ==
    /\ (Answered("component_volumes") /\ Matching = {}) => answer[1].value = << >>
    /\ (Answered("tumor_volume_summary") /\ Matching = {}) =>
          /\ answer[1].value.components = << >>
          /\ answer[1].value.total_mm3 = 0
          /\ RatEq(answer[1].value.total_ml, <<0, 1>>)
    /\ (Did("metrics") /\ Task008Given
           /\ ~Logged("failed to compute tumour volume") /\ TumorVoxels = {}) =>
          /\ tumor_metrics # <<>>
          /\ tumor_metrics[1].components = << >>
          /\ tumor_metrics[1].total_mm3 = 0
          /\ RatEq(tumor_metrics[1].total_ml, <<0, 1>>)

C11_Witness ==
    /\ pc = "returned"
    /\ Task008Given
    /\ TumorVoxels = {}
    /\ SelOf(TaskMask, 3) # {}
    /\ result[1].tumor_metrics # <<>>
    /\ result[1].tumor_metrics[1].components = << >>
    /\ result[1].tumor_metrics[1].total_mm3 = 0

\* ---- Properties of the reconciliation calls -------------------------------

\* The queried mask is already on the reference grid
OnReferenceGrid ==
    /\ query.mask.size = query.reference.size
    /\ query.mask.spacing = query.reference.spacing
    /\ query.mask.origin = query.reference.origin
    /\ query.mask.direction = query.reference.direction

\* C12: _resample_mask_to_image returns the input mask, every voxel value
\* unchanged, whenever the mask's size, spacing, origin and direction equal
\* the reference's; reconciling its output against the same reference again
\* returns identical data.
C12_ReconcileFastPathAndIdempotence ==
    /\ (Answered("_resample_mask_to_image") /\ OnReferenceGrid) =>
          answer[1].value = query.mask
    /\ Answered("_resample_mask_to_image twice") =>
          answer[1].value = answer[1].first

C12_Witness ==
    /\ Answered("_resample_mask_to_image twice")
    /\ ~OnReferenceGrid
    /\ answer[1].first.data # query.mask.data
    /\ \E v \in DOMAIN answer[1].value.data : answer[1].value.data[v] # 0
    /\ answer[1].value = answer[1].first

\* Twice the physical position, along axis a, of voxel idx of the reference
RefPosition2(idx, a) ==
    2 * (query.reference.origin[a]
           + query.reference.direction[a] * idx[a] * query.reference.spacing[a])

\* Twice the lower and upper end of the queried mask's extent along axis a:
\* half a voxel beyond the centres of its first and last voxel
MaskLow2(a) ==
    IF query.mask.direction[a] = 1
    THEN 2 * query.mask.origin[a] - query.mask.spacing[a]
    ELSE 2 * query.mask.origin[a] - (2 * query.mask.size[a] - 1) * query.mask.spacing[a]

MaskHigh2(a) ==
    IF query.mask.direction[a] = 1
    THEN 2 * query.mask.origin[a] + (2 * query.mask.size[a] - 1) * query.mask.spacing[a]
    ELSE 2 * query.mask.origin[a] + query.mask.spacing[a]

OutsideMask(idx) ==
    \E a \in Axes : RefPosition2(idx, a) < MaskLow2(a) \/ RefPosition2(idx, a) > MaskHigh2(a)

InputLabels == {query.mask.data[v] : v \in DOMAIN query.mask.data}

\* C13: when the mask's geometry differs from the reference's, the reconciled
\* mask has the reference's size, spacing, origin and direction, every voxel
\* of it is 0 or a label value of the input mask, and every voxel whose
\* physical position lies outside the input mask's extent is 0.
C13_ResampleOntoReferenceGrid ==
    (Answered("_resample_mask_to_image") /\ ~OnReferenceGrid) =>
        LET out == answer[1].value
        IN  /\ out.size = query.reference.size
            /\ out.spacing = query.reference.spacing
            /\ out.origin = query.reference.origin
            /\ out.direction = query.reference.direction
            /\ DOMAIN out.data = Idx(query.reference.size)
            /\ \A v \in DOMAIN out.data :
                  /\ out.data[v] \in InputLabels \cup {0}
                  /\ OutsideMask(v) => out.data[v] = 0

C13_Witness ==
    /\ Answered("_resample_mask_to_image")
    /\ ~OnReferenceGrid
    /\ 0 \notin InputLabels
    /\ \E v \in DOMAIN answer[1].value.data : OutsideMask(v) /\ answer[1].value.data[v] = 0
    /\ \E v \in DOMAIN answer[1].value.data : ~OutsideMask(v) /\ answer[1].value.data[v] = 3

\* ---- Properties of the geometry handling in run_pipeline -------------------

\* The mask file at path, cast, reconciled onto the loaded reference and then
\* canonicalized
ReconciledThenCanonicalized(path) ==
    _canonicalize_image(_resample_mask_to_image(CastUInt8(fs[path][1]), img[1]))

\* Zero origin, identity direction, size and spacing of the reference
OnCanonicalGrid(m) ==
    /\ m.origin = <<0, 0, 0>>
    /\ m.direction = <<1, 1, 1>>
    /\ m.size = img[1].size
    /\ m.spacing = img[1].spacing
    /\ DOMAIN m.data = Idx(img[1].size)

\* The surfaces of the map's labels are the ones meshed from volume m
MeshedFrom(label_map, m) ==
    \A i \in 1..Len(label_map) :
        LET e == label_map[i]
            b == _build_surface(m, e.name, e.color, <<e.label>>)
        IN  IF b.surface = <<>> THEN e.name \notin DOMAIN surfaces
            ELSE /\ e.name \in DOMAIN surfaces
                 /\ surfaces[e.name].vertices = b.surface[1].vertices
                 /\ surfaces[e.name].faces = b.surface[1].faces

LiverOnReferenceGrid ==
    /\ fs[RefPath] # <<>> /\ fs[LiverPath] # <<>>
    /\ fs[LiverPath][1].size = fs[RefPath][1].size
    /\ fs[LiverPath][1].spacing = fs[RefPath][1].spacing
    /\ fs[LiverPath][1].origin = fs[RefPath][1].origin
    /\ fs[LiverPath][1].direction = fs[RefPath][1].direction

\* Where voxel v of the reference file is found in the canonicalized
\* reference: an axis stored in reverse is turned round
CanonicalIndex(v) ==
    [a \in Axes |-> IF fs[RefPath][1].direction[a] = 1 THEN v[a]
                    ELSE fs[RefPath][1].size[a] - 1 - v[a]]

\* C15 as stated: a mask on the same voxel grid as the loaded reference keeps
\* every voxel label at the voxel it shares with the reference after
\* run_pipeline's reconcile-then-canonicalize step, for any reference origin.
C15_AsStated ==
    (mask_img # <<>> /\ LiverOnReferenceGrid) =>
        \A v \in Grid :
            mask_img[1].data[CanonicalIndex(v)] = fs[LiverPath][1].data[v]

\* ---- Properties of the surface extraction calls -----------------------------

Is3D == Len(query.mask_zyx.shape) = 3

\* The voxels <<x, y, z>> of the queried array with a value > 0, or equal to L
Positive == {ZYX(zyx) : zyx \in {i \in DOMAIN query.mask_zyx.at : query.mask_zyx.at[i] > 0}}

EqualTo(L) == {ZYX(zyx) : zyx \in {i \in DOMAIN query.mask_zyx.at : query.mask_zyx.at[i] = L}}

QueryOrigin == IF query.origin = <<>> THEN <<0, 0, 0>> ELSE query.origin[1]

\* The answer is what extraction gives with foreground sel
ExtractedFrom(sel) ==
    LET poly == DiscreteMarchingCubes(sel, ZYX(query.mask_zyx.shape), query.spacing,
                                      QueryOrigin)
        out == answer[1].value
    IN  IF sel = {} THEN out.err = "Mask is empty; nothing to mesh."
        ELSE IF Len(poly.points) = 0 \/ poly.polys.cells = 0
        THEN out.err \notin {"", "Mask is empty; nothing to mesh."}
        ELSE out.err = "" /\ out.vertices = poly.points /\ Len(out.faces) = poly.polys.cells

\* C16 as stated: mask_to_surface called without a label argument treats
\* every voxel > 0 as foreground; called with a label L it treats exactly the
\* voxels equal to L as foreground.
C16_AsStated ==
    (Answered("mask_to_surface") /\ Is3D) =>
        IF query.label_given /\ query.label # <<>>
        THEN ExtractedFrom(EqualTo(query.label[1]))
        ELSE ExtractedFrom(Positive)

\* The foreground the call selects: the voxels equal to the label (1 when the
\* argument is left out), or the voxels > 0 when the label is None
Selection ==
    IF ~query.label_given THEN EqualTo(1)
    ELSE IF query.label = <<>> THEN Positive
    ELSE EqualTo(query.label[1])

\* Marching cubes over the selection gives no point or no polygon
NothingExtracted ==
    LET poly == DiscreteMarchingCubes(Selection, ZYX(query.mask_zyx.shape),
                                      query.spacing, QueryOrigin)
    IN  Len(poly.points) = 0 \/ poly.polys.cells = 0

\* C17: on a 3D array mask_to_surface fails with the empty-mask error exactly
\* when the label selection has no foreground voxel (a label absent from the
\* volume included), and with a degenerate-mesh error exactly when the
\* selection is non-empty but extraction yields no points or no polygons; the
\* two errors differ from each other and from the not-a-3D-array error, which
\* is what an array of another rank gets.
C17_EmptyAndDegenerateErrors ==
    Answered("mask_to_surface") =>
        LET err == answer[1].value.err
        IN  /\ ~Is3D => err = "Mask must be a 3D array (z, y, x)."
            /\ Is3D =>
                  /\ err = "Mask is empty; nothing to mesh." <=> Selection = {}
                  /\ err \in {"Marching cubes returned an empty mesh.",
                               "Marching cubes returned a mesh without faces."}
                        <=> (Selection # {} /\ NothingExtracted)
                  /\ err = "" <=> (Selection # {} /\ ~NothingExtracted)

C17_Witness ==
    /\ Answered("mask_to_surface")
    /\ Is3D
    /\ query.label = <<3>>
    /\ EqualTo(3) = {}
    /\ Positive # {}
    /\ answer[1].value.err = "Mask is empty; nothing to mesh."

\* At least one vertex, at least one face, every face index a vertex number
ValidSurface(surface) ==
    /\ Len(surface.vertices) > 0
    /\ Len(surface.faces) > 0
    /\ \A i \in 1..Len(surface.faces) : \A k \in 1..3 :
          /\ surface.faces[i][k] >= 0
          /\ surface.faces[i][k] < Len(surface.vertices)

\* C18: every surface mask_to_surface returns, and every surface in the
\* collection run_pipeline builds and returns, has at least one vertex and at
\* least one face, and every face index is in [0, N) for its N vertices; an
\* extraction that cannot give both is an error or is skipped, never stored.
C18_SurfacesAreValid ==
    /\ Answered("mask_to_surface") =>
          IF answer[1].value.err = "" THEN ValidSurface(answer[1].value)
          ELSE ~Is3D \/ Selection = {} \/ NothingExtracted
    /\ \A k \in DOMAIN surfaces : ValidSurface(surfaces[k])
    /\ result # <<>> =>
          \A k \in DOMAIN result[1].surfaces : ValidSurface(result[1].surfaces[k])

C18_Witness ==
    /\ pc = "returned"
    /\ Name_liver \in DOMAIN result[1].surfaces
    /\ Len(result[1].surfaces[Name_liver].vertices) = 3
    /\ result[1].surfaces[Name_liver].faces = << <<0, 1, 2>> >>
    /\ Name_liver_tumors \notin DOMAIN result[1].surfaces
    /\ Logged("marching cubes failed")

\* Twice the physical position origin + index x spacing of voxel u along axis a
VoxelCentre2(u, a) == 2 * (QueryOrigin[a] + u[a] * query.spacing[a])

MinOf(S) == CHOOSE x \in S : \A y \in S : x <= y

MaxOf(S) == CHOOSE x \in S : \A y \in S : x >= y

\* Along axis a, the ends of the vertices' bounding box are within one voxel
\* spacing of the ends of the extent of the voxels sel
BoundingBoxMatches(vertices, sel, a) ==
    LET vs == {vertices[i][a] : i \in 1..Len(vertices)}
        cs == {VoxelCentre2(u, a) : u \in sel}
    IN  /\ Abs(MinOf(vs) - MinOf(cs)) <= 2 * query.spacing[a]
        /\ Abs(MaxOf(vs) - MaxOf(cs)) <= 2 * query.spacing[a]

\* Every vertex lies on the boundary of a voxel of sel
OnlyGeometryOf(vertices, sel) ==
    \A i \in 1..Len(vertices) :
        \E u \in sel : \A a \in Axes :
            Abs(vertices[i][a] - VoxelCentre2(u, a)) <= query.spacing[a]

\* C19 as stated: for a multi-label (z, y, x) volume with spacing and origin
\* in (x, y, z) order, the surface extracted for label L has, on each axis, a
\* bounding box within one voxel spacing of the physical extent of the voxels
\* labelled L, and has no geometry from voxels of another label.
C19_AsStated ==
    (Answered("mask_to_surface") /\ Is3D /\ query.label_given /\ query.label # <<>>
       /\ answer[1].value.err = "") =>
        /\ \A a \in Axes :
              BoundingBoxMatches(answer[1].value.vertices, EqualTo(query.label[1]), a)
        /\ OnlyGeometryOf(answer[1].value.vertices, EqualTo(query.label[1]))

\* ---- Properties of the export ---------------------------------------------

\* The mesh files written so far
MeshWrites == {i \in 1..Len(written) : written[i].kind = "mesh"}

ExportRequested == pc # "idle" /\ args.export_path = <<"liver.obj">>

\* C20: run_pipeline writes a mesh export if and only if an export path was
\* requested and the collection contains a "liver" surface: a run that returns
\* has written exactly then, and no run writes one otherwise.  What is written
\* is the liver surface alone, to the requested path, once, after the
\* surface-building and volumetrics steps; a requested export that is missing
\* from a finished run means the run raised (an unreadable mask or the write
\* itself).
C20_ExportOnlyLiverAtTheEnd ==
    /\ pc = "returned" =>
          (MeshWrites # {} <=> (ExportRequested /\ Name_liver \in DOMAIN surfaces))
    /\ MeshWrites # {} =>
          /\ ExportRequested
          /\ Name_liver \in DOMAIN surfaces
          /\ Cardinality(MeshWrites) = 1
          /\ SubSeq(steps, 1, 7) = SubSeq(AllSteps, 1, 7)
          /\ \A i \in MeshWrites :
                /\ written[i].path = "liver.obj"
                /\ written[i].content.vertices = surfaces[Name_liver].vertices
                /\ written[i].content.faces = surfaces[Name_liver].faces
    /\ (pc = "raised" /\ MeshWrites = {} /\ ExportRequested
           /\ Name_liver \in DOMAIN surfaces) =>
          raised \in {ErrReadImage, ErrSaveMesh}

C20_Witness ==
    /\ pc = "returned"
    /\ ExportRequested
    /\ Name_liver \notin DOMAIN surfaces
    /\ Name_liver_tumors \in DOMAIN surfaces
    /\ MeshWrites = {}

\* ---- Properties of the liver mask resolution ---------------------------------

\* C24 as stated: when no liver mask path is given (and local inference is
\* permitted), the pipeline invokes the external liver segmenter and uses its
\* binary output as the liver mask instead of failing.  run_pipeline has no
\* parameter or setting that permits or forbids inference, so the statement is
\* read for every call without a liver mask path whose reference volume loaded.
C24_AsStated ==
    (NoLiverPath /\ img # <<>> /\ Did("resolve_liver")) =>
        /\ raised # ErrLiverRequired
        /\ mask_img # <<>>

\* The mask files written so far
MaskWrites == {i \in 1..Len(written) : written[i].kind = "mask"}

SaveRequested == pc # "idle" /\ args.save_mask_path = <<"liver_saved.nii.gz">>

\* C25: with a save-mask path, a run that gets past step 2 has written the
\* resolved liver mask exactly once, to that path, before anything else was
\* written and before any surface was built; the image written is the
\* reconciled and canonicalized mask, the one returned as the third result.
\* Without a save-mask path no mask file is ever written.
C25_SaveMaskOnceBeforeSurfaces ==
    /\ (pc # "idle" /\ ~SaveRequested) => MaskWrites = {}
    /\ MaskWrites \subseteq {1}
    /\ (SaveRequested /\ ~Did("resolve_liver")) => MaskWrites = {}
    /\ (SaveRequested /\ Did("build_liver")) => MaskWrites = {1}
    /\ (MaskWrites = {} /\ Did("resolve_liver")) => surfaces = EmptyDict \/ ~SaveRequested
    /\ \A i \in MaskWrites :
          /\ written[i].path = "liver_saved.nii.gz"
          /\ written[i].content = ReconciledThenCanonicalized("liver.nii.gz")
          /\ OnCanonicalGrid(written[i].content)
          /\ pc = "returned" => written[i].content = result[1].mask_img

C25_Witness ==
    /\ pc = "returned"
    /\ SaveRequested
    /\ MaskWrites = {1}
    /\ fs["liver.nii.gz"][1].origin # <<0, 0, 0>>
    /\ written[1].content = result[1].mask_img
    /\ Name_liver \in DOMAIN result[1].surfaces

\* ---- Properties of the components -------------------------------------------

\* Adjacency under connectivity 6 (faces), 18 (faces and edges), 26 (faces,
\* edges and corners)
AdjacentUnder(u, v, connectivity) ==
    /\ u # v
    /\ \A a \in Axes : Abs(u[a] - v[a]) <= 1
    /\ Cardinality({a \in Axes : u[a] # v[a]}) <=
          (CASE connectivity = 6 -> 1 [] connectivity = 18 -> 2 [] OTHER -> 3)

\* The labels of the components that hold voxel v
ComponentsOf(v) ==
    {i \in 1..Len(answer[1].components) : v \in answer[1].components[i]}

RECURSIVE SumOfVoxelCounts(_, _)
SumOfVoxelCounts(components, i) ==
    IF i > Len(components) THEN 0
    ELSE components[i].voxel_count + SumOfVoxelCounts(components, i + 1)

\* C29 as stated: the components returned by component_volumes partition the
\* selected voxels: every selected voxel is in exactly one component, label
\* ids are pairwise distinct and positive, every component has at least one
\* voxel, two selected voxels adjacent under the chosen connectivity are never
\* in different components, and the voxel counts sum to the number of
\* selected voxels.
C29_AsStated ==
    Answered("component_volumes") =>
        LET r == answer[1].value
        IN  /\ \A v \in Matching : Cardinality(ComponentsOf(v)) = 1
            /\ \A i \in 1..Len(r) :
                  /\ r[i].label_id > 0
                  /\ r[i].voxel_count >= 1
                  /\ r[i].voxel_count = Cardinality(answer[1].components[r[i].label_id])
                  /\ \A j \in 1..Len(r) : i # j => r[i].label_id # r[j].label_id
            /\ \A u \in Matching, v \in Matching :
                  AdjacentUnder(u, v, query.connectivity) => ComponentsOf(u) = ComponentsOf(v)
            /\ SumOfVoxelCounts(r, 1) = Cardinality(Matching)

\* ---- Properties of the case discovery -----------------------------------------

\* The listed output directories named case
OutDirsNamed(case) ==
    IF query.out = <<>> THEN {}
    ELSE {i \in DOMAIN query.out[1] :
            query.out[1][i].is_dir /\ query.out[1][i].name = case}

\* The case names that the raw root gives rise to
RawCaseNames ==
    IF query.raw = <<>> THEN {}
    ELSE { IF Len(e.name) > 1 /\ e.name[2] \in {"_DICOM", ".nii"} THEN <<e.name[1]>>
           ELSE e.name :
           e \in {query.raw[1][i] : i \in {j \in DOMAIN query.raw[1] :
                      query.raw[1][j].is_dir
                         \/ query.raw[1][j].name[Len(query.raw[1][j].name)] = ".gz"}} }

\* path names an existing regular file of the output directory of case
FileOfOutputDir(path, case) ==
    /\ path.abs
    /\ Len(path.parts) >= 2
    /\ path.parts[Len(path.parts) - 1] = case
    /\ \E i \in OutDirsNamed(case) :
          \E k \in DOMAIN query.out[1][i].children :
             /\ query.out[1][i].children[k].name = path.parts[Len(path.parts)]
             /\ ~query.out[1][i].children[k].is_dir

MaskKeys == {"liver_mask", "task008_mask", "manual_mask"}

\* C30 as stated: every case returned by _discover_cases has an absolute
\* reference-volume path; a case that appears only in the output root is
\* omitted; and each mask path recorded for a case (at most one liver, one
\* vessel/tumor and one manual path: they are keys of a dict) is an existing
\* file of that case's output directory.
C30_AsStated ==
    Answered("_discover_cases") =>
        \A case \in DOMAIN answer[1].value :
            /\ "dicom_path" \in DOMAIN answer[1].value[case]
            /\ answer[1].value[case]["dicom_path"].abs
            /\ case \in RawCaseNames
            /\ DOMAIN answer[1].value[case] \subseteq MaskKeys \cup {"dicom_path"}
            /\ \A key \in MaskKeys \cap DOMAIN answer[1].value[case] :
                  FileOfOutputDir(answer[1].value[case][key], case)

\* ---- Properties of the viewer session ---------------------------------------

\* The calls of _on_case_selected that got as far as the loader and got a
\* result from it
Loaded == {i \in DOMAIN calls : calls[i].loader_called /\ calls[i].raised = ""}

\* The calls in which run_pipeline was executed
Ran == {i \in DOMAIN calls : calls[i].ran}

\* C21: in a viewer session, over any sequence of case selections,
\* run_pipeline is executed at most once per case name whose load succeeded:
\* after a load of a case has succeeded no later selection of it runs the
\* pipeline, and it returns the result of the first load; the initial case
\* is never run by the loader, which answers it with the result main()
\* preloaded.
C21_PipelineRunsOncePerLoadedCase ==
    vpc \in {"idle", "rebuild"} =>
        /\ \A i \in Loaded, j \in DOMAIN calls :
              (i < j /\ calls[j].case_name = calls[i].case_name) =>
                  /\ j \notin Ran
                  /\ calls[j].loader_called =>
                        (calls[j].raised = "" /\ calls[j].value = calls[i].value)
        /\ \A n \in CaseNames :
              Cardinality({i \in Ran \cap Loaded : calls[i].case_name = n}) <= 1
        /\ \A i \in DOMAIN calls :
              calls[i].case_name = session.initial_case =>
                  /\ i \notin Ran
                  /\ calls[i].loader_called =>
                        /\ calls[i].raised = ""
                        /\ calls[i].value[1].surfaces = 1
                        /\ calls[i].value[1].img =
                              _canonicalize_image(fs[CtPath(session.initial_case)][1])
        /\ case_cache[session.initial_case].surfaces = 1

C21_Witness ==
    /\ vpc = "idle"
    /\ Len(calls) = 3
    /\ 1 \in Ran \cap Loaded
    /\ calls[2].case_name = session.initial_case
    /\ calls[2].loader_called /\ ~calls[2].ran
    /\ calls[3].case_name = calls[1].case_name
    /\ calls[3].hit
    /\ calls[3].value = calls[1].value
    /\ calls[3].shown

\* The surfaces dicts of the cached tuples are distinct objects, one per
\* executed run that returned
OneCollectionPerRun ==
    vpc \in {"idle", "rebuild"} =>
        /\ Len(collections) = 1 + Cardinality(Ran \cap Loaded)
        /\ \A n \in DOMAIN case_cache :
              /\ case_cache[n].surfaces \in DOMAIN collections
              /\ \A m \in DOMAIN case_cache :
                    n # m => case_cache[n].surfaces # case_cache[m].surfaces
        /\ \A i \in Ran \cap Loaded :
              \A n \in DOMAIN case_cache :
                  calls[i].value[1].surfaces = case_cache[n].surfaces
                      => n = calls[i].case_name

\* No step adds to, removes from or changes a surfaces dict that exists, or
\* a cached tuple
CollectionsKept ==
    /\ \A id \in DOMAIN collections :
          id \in DOMAIN collections' /\ collections'[id] = collections[id]
    /\ \A n \in DOMAIN case_cache :
          n \in DOMAIN case_cache' /\ case_cache'[n] = case_cache[n]

\* C22: each run_pipeline execution builds a new SurfaceCollection, and
\* loading or displaying a case never adds to, removes from or modifies the
\* SurfaceCollection returned and cached for another case.
C22_FreshCollectionPerRun ==
    /\ []OneCollectionPerRun
    /\ [][CollectionsKept]_vars

C22_Witness ==
    /\ vpc = "idle"
    /\ Len(collections) = 3
    /\ Cardinality(DOMAIN case_cache) = 3
    /\ collections[1] # collections[2]
    /\ collections[2] # collections[3]
    /\ Cardinality({i \in DOMAIN calls : calls[i].shown}) >= 2
    /\ DOMAIN viewer[1].surface_layers # {}

\* A returned tuple t, with its surfaces dict d, is what the run gives on the
\* case's files alone (fresh); the metrics are None when the volumetrics
\* block raised
SameAsFresh(t, d, fresh) ==
    /\ fresh.raised = ""
    /\ d = fresh.data[1].surfaces
    /\ t.img = fresh.data[1].img
    /\ t.mask_img = fresh.data[1].mask_img
    /\ t.tumor_metrics \in {<<>>, fresh.data[1].tumor_metrics}

\* The run of a case in a process that ran nothing before
FreshRun(n) == run_pipeline(ArgsOf(case_catalog[n], <<>>, <<>>), FALSE)

SelectedAndLoaded ==
    {i \in DOMAIN calls :
        /\ ~calls[i].nested /\ ~calls[i].suppressed
        /\ calls[i].case_name \in DOMAIN case_catalog
        /\ calls[i].case_name # calls[i].current_before
        /\ calls[i].loader_called /\ calls[i].raised = ""}

\* The viewer shows the case n: its name, its volume and the layers of its
\* surfaces dict
ShowsCase(v, n, t, d) ==
    /\ v.current_case = n
    /\ v.image_sitk = t.img
    /\ v.volume_data = <<GetArrayFromImage(t.img)>>
    /\ v.vol_layer # <<>> /\ v.vol_layer[1].data = GetArrayFromImage(t.img)
    /\ DOMAIN v.surface_layers = {LayerName(k, d[k]) : k \in Shown(d)}
    /\ DOMAIN v.surface_meshes_world = DOMAIN v.surface_layers
    /\ \A k \in Shown(d) :
          /\ v.surface_meshes_world[LayerName(k, d[k])].vertices = d[k].vertices
          /\ v.surface_meshes_world[LayerName(k, d[k])].faces = d[k].faces

\* C26: a selection of a catalog case other than the current one whose load
\* succeeded makes the viewer show that case: current_case, volume and the
\* surface layers of its SurfaceCollection.
C26_AsStated ==
    vpc \in {"idle", "rebuild"} =>
        /\ \A i \in SelectedAndLoaded : calls[i].shown
        /\ Len(calls) \in SelectedAndLoaded =>
              ShowsCase(viewer[1], calls[Len(calls)].case_name,
                        case_cache[calls[Len(calls)].case_name],
                        collections[case_cache[calls[Len(calls)].case_name].surfaces])

\* A step is a call of _on_case_selected: the record c of the call is the
\* one it appends
IsCall(c) == calls' = Append(calls, c)

\* The call c left the viewer as it was
ViewerKept(c) ==
    /\ viewer' = viewer
    /\ vpc' = vpc
    /\ ~c.shown

\* The call c did not reach the loader
LoaderNotCalled(c) ==
    /\ ~c.loader_called /\ ~c.ran /\ ~c.hit
    /\ lru' = lru /\ case_cache' = case_cache /\ collections' = collections

\* C27: a call of _on_case_selected in which the loader raises leaves the
\* whole viewer state as it was (current_case, image, spacing, origin,
\* direction, volume data, surface layers, stored meshes), and a call with
\* the current case or with an empty name leaves it as it was without
\* calling the loader.
C27_FailedOrIdleSelectionKeepsViewer ==
    [][Len(calls') = Len(calls) + 1 =>
          /\ IsCall(calls'[Len(calls')])
          /\ (calls'[Len(calls')].loader_called /\ calls'[Len(calls')].raised # "")
                => ViewerKept(calls'[Len(calls')])
          /\ (calls'[Len(calls')].case_name \in {"", viewer[1].current_case})
                => (ViewerKept(calls'[Len(calls')]) /\ LoaderNotCalled(calls'[Len(calls')]))]_vars

C27_Witness ==
    /\ vpc = "idle"
    /\ Len(calls) = 3
    /\ calls[1].shown
    /\ calls[2].loader_called /\ calls[2].raised # ""
    /\ calls[3].case_name \in {"", calls[1].case_name} /\ ~calls[3].loader_called
    /\ viewer[1].current_case = calls[1].case_name
    /\ viewer[1].current_case # session.initial_case
    /\ viewer[1].image_sitk = case_cache[calls[1].case_name].img

\* The calls of _on_case_selected made while another call was rebuilding the
\* sidebar, and the calls made while the flag was set
NestedCalls == {i \in DOMAIN calls : calls[i].nested}

SuppressedCalls == {i \in DOMAIN calls : calls[i].suppressed}

\* The flag is set exactly while a call is rebuilding the sidebar
FlagFollowsRebuild ==
    vpc \in {"idle", "rebuild"} =>
        (viewer[1].suppress_case_signal <=> vpc = "rebuild")

\* A call made during a rebuild found the flag set, and a call that found
\* the flag set returned without loading or showing anything
SuppressedCallsReturn ==
    /\ NestedCalls \subseteq SuppressedCalls
    /\ \A i \in SuppressedCalls :
          ~calls[i].loader_called /\ ~calls[i].ran /\ ~calls[i].hit /\ ~calls[i].shown

\* A selection that arrives during a rebuild changes nothing but the record
\* of calls
NestedCallKeepsState ==
    (vpc = "rebuild" /\ calls' # calls) =>
        /\ viewer' = viewer /\ vpc' = vpc
        /\ lru' = lru /\ case_cache' = case_cache /\ collections' = collections

\* C28: _on_case_selected is not re-entered by the signals of its own
\* sidebar rebuild: while _suppress_case_signal is True every selection
\* returns without loading, and the flag is False whenever no call is in
\* progress, also after a rebuild that raised.
C28_NoReentryDuringRebuild ==
    /\ [](FlagFollowsRebuild /\ SuppressedCallsReturn)
    /\ [][NestedCallKeepsState]_vars

C28_Witness ==
    /\ vpc = "idle"
    /\ NestedCalls # {}
    /\ \E i \in NestedCalls : calls[i].case_name \notin {"", calls[i].current_before}
    /\ viewer[1].case_list_widget = <<>>
    /\ ~viewer[1].suppress_case_signal

====
